---- MODULE Spec2Model ----
(***************************************************************************)
(* Resilient SDN multicast: the per-link-protection tree builder           *)
(* (AbstractTreeBuilder.py, PerLinkTreeBuilder.py), the SPT join (SPT.py)  *)
(* and the forwarding-state compiler of MulticastController.py, as one     *)
(* state machine.  Every public operation is one atomic action (the        *)
(* controller is a single-threaded event loop).  A Python exception aborts *)
(* the operation where it is raised: the mutations made so far stay, and   *)
(* the exception is recorded in the field err of the machine state.        *)
(***************************************************************************)
EXTENDS Integers, Sequences, FiniteSets, TLC

(***************************************************************************)
(* The network graph (MulticastController.network) once discovered:        *)
(* switches 1..5, hosts 6 (hA at switch 5), 7 (hB at switch 2) and         *)
(* 8 (hC at switch 3).  Python's None is 0.                                *)
(***************************************************************************)
Switches == {1, 2, 3, 4, 5}
Hosts == {6, 7, 8}
Nodes == Switches \cup Hosts
None == 0

\* network.node[n]['host']
IsHost(n) == n \in Hosts

\* the neighbours of every switch, in the order of its port numbers 1, 2, ...
PortTable == <<  <<2, 3, 4>>, <<1, 5, 4, 7>>, <<1, 5, 8>>, <<1, 2>>, <<2, 3, 6>>  >>

\* the neighbour behind every host's only interface
HostAttach == [h \in Hosts |-> CASE h = 6 -> 5 [] h = 7 -> 2 [] OTHER -> 3]

Range(s) == {s[i] : i \in DOMAIN s}

\* network.successors(u)
Succ(u) == IF u \in Switches THEN Range(PortTable[u]) ELSE {HostAttach[u]}

\* the directed edges of the network graph
Edges == {e \in Nodes \X Nodes : e[2] \in Succ(e[1])}

\* network[u][v]['src_port']: hostFound gives a host's side of its link port -1
src_port(u, v) ==
    IF u \in Hosts THEN -1
    ELSE CHOOSE i \in DOMAIN PortTable[u] : PortTable[u][i] = v

\* network[u][v]['dst_port']
dst_port(u, v) == src_port(v, u)

\* iteration over a set of integers, in ascending order
RECURSIVE SetToSeq(_)
SetToSeq(S) ==
    IF S = {} THEN <<>>
    ELSE LET m == CHOOSE x \in S : \A y \in S : x <= y
         IN <<m>> \o SetToSeq(S \ {m})

(***************************************************************************)
(* Trees.  A tree of the hierarchy is named by the chain of edges it       *)
(* protects: <<>> is the primary, <<e1>> the backup attached to edge e1 of *)
(* the primary, <<e1, e2>> the backup attached to edge e2 of <<e1>>.       *)
(* T[x][y]['backup'] is the tree named Append(t, <<x, y>>) when that name  *)
(* is in the hierarchy and None otherwise.                                *)
(***************************************************************************)
Primary == <<>>

\* the attribute record of a tree (nx.DiGraph with graph['root'], ...); parent
\* is the set of the parent's name, empty for None
Tree(root, parent, primary, pred, tag) ==
    [root |-> root, parent |-> parent, primary |-> primary,
     predecessor_switch |-> pred, tag |-> tag, nodes |-> {root}, edges |-> {}]

\* T.successors(n), T.out_degree(n), T.predecessors(n)
TSucc(T, n) == {e[2] : e \in {d \in T.edges : d[1] = n}}
out_degree(T, n) == Cardinality(TSucc(T, n))
TPred(T, n) == {e[1] : e \in {d \in T.edges : d[2] = n}}

\* T.add_edge(u, v, backup = None)
add_edge(T, u, v) ==
    [T EXCEPT !.nodes = @ \cup {u, v}, !.edges = @ \cup {<<u, v>>}]

(***************************************************************************)
(* SPT.join.  The weights 1.0 and 1.0 - 1/(|E(T)|+1) are scaled by         *)
(* |E(T)|+1 to the integers |E(T)|+1 and |E(T)|.  nx.dijkstra_path returns *)
(* a path of least weight; among several it returns the one its adjacency  *)
(* order meets first, which the model fixes as ascending node order.       *)
(***************************************************************************)
\* join.weight without lines 27-28: a new edge may enter a node of the tree
AdmissibleIntoTree(dead, exclude, T, x, y) ==
    /\ <<x, y>> \notin dead
    /\ <<x, y>> \notin exclude

\* join.weight without lines 21-22: an edge that is not live may be used
AdmissibleNotLive(dead, exclude, T, x, y) ==
    /\ <<x, y>> \notin exclude
    /\ (<<x, y>> \in T.edges \/ y \notin T.nodes)

\* join.weight: not None
Admissible(dead, exclude, T, x, y) ==
    /\ <<x, y>> \notin dead
    /\ <<x, y>> \notin exclude
    /\ (<<x, y>> \in T.edges \/ y \notin T.nodes)

\* join.weight with 0 instead of 1.0 - epsilon for an edge of the tree
weight_free_tree(T, x, y) ==
    IF <<x, y>> \in T.edges THEN 0 ELSE 1

\* join.weight with 1.0 + epsilon instead of 1.0 - epsilon for an edge of the
\* tree
weight_tree_dearer(T, x, y) ==
    IF <<x, y>> \in T.edges THEN Cardinality(T.edges) + 2
    ELSE Cardinality(T.edges) + 1

\* join.weight, scaled
weight(T, x, y) ==
    IF <<x, y>> \in T.edges THEN Cardinality(T.edges)
    ELSE Cardinality(T.edges) + 1

\* the simple paths of admissible edges that extend p to v
RECURSIVE PathsFrom(_, _, _, _, _)
PathsFrom(dead, exclude, T, p, v) ==
    LET u == p[Len(p)]
    IN IF u = v THEN {p}
       ELSE UNION { PathsFrom(dead, exclude, T, Append(p, y), v) :
                    y \in {z \in Succ(u) : /\ z \notin Range(p)
                                           /\ Admissible(dead, exclude, T, u, z)} }

RECURSIVE PathWeight(_, _)
PathWeight(T, p) ==
    IF Len(p) < 2 THEN 0
    ELSE weight(T, p[1], p[2]) + PathWeight(T, Tail(p))

\* paths of one length compared node by node
RECURSIVE PathCode(_)
PathCode(p) ==
    IF p = <<>> THEN 0
    ELSE p[Len(p)] + 16 * PathCode(SubSeq(p, 1, Len(p) - 1))

\* nx.dijkstra_path(network, root, v, weight), <<>> for NetworkXNoPath
dijkstra_path(dead, exclude, T, v) ==
    LET P == PathsFrom(dead, exclude, T, <<T.root>>, v)
        W == [p \in P |-> PathWeight(T, p)]
        Least == {p \in P : \A q \in P : W[p] <= W[q]}
    IN IF P = {} THEN <<>>
       ELSE CHOOSE p \in Least : \A q \in Least : PathCode(p) <= PathCode(q)

\* SPT.join that passes no exclude to its weight
join_no_exclude(dead, exclude, T, v) ==
    IF v \in T.nodes THEN <<>>
    ELSE dijkstra_path(dead, {}, T, v)

\* SPT.join(network, exclude, T, v)
join(dead, exclude, T, v) ==
    IF v \in T.nodes THEN <<>>
    ELSE dijkstra_path(dead, exclude, T, v)

(***************************************************************************)
(* The machine state M handed through every operation:                     *)
(*   trees      the hierarchy of builder.groups[(group, source)], the      *)
(*              empty function when the group is not registered            *)
(*   tag_index  graph['tag_index'] of the primary                          *)
(*   sw         per switch: flows, FF_groups, buckets, group_id_index (the *)
(*              controller's maps), tables, groups (what the commands      *)
(*              sent so far leave installed on the switch) and req (per    *)
(*              flow key, the destinations add_flow was called with and    *)
(*              remove_flow has not been called with since; no operation   *)
(*              reads it)                                                  *)
(*   dead       the links (x, y) with network[x][y]['live'] = False        *)
(*   cmds       the commands sent to the switches by the operation         *)
(*   err        "none", or the exception that aborted the operation        *)
(*   calls      the calls of add_flow, add_backup, log (of a failed backup *)
(*              join), _create_tree and _undo_tree the builder made during *)
(*              the operation, and the calls of remove_flow and            *)
(*              remove_backup _leave made, in order, each with the cursor  *)
(*              and the number of commands sent at the call; an add_backup,*)
(*              remove_flow or remove_backup call carries its arguments,   *)
(*              the state of its switch before and after it, its exception *)
(*              and the commands it sent                                   *)
(* There is one (group, source) and no match on the in-port (the builder   *)
(* never passes prev_switch_id to add_flow / remove_flow nor in_port_flow  *)
(* to add_backup / remove_backup), so a flow key is its tag.               *)
(***************************************************************************)
NoSwitchState ==
    [flows |-> <<>>, FF_groups |-> <<>>, buckets |-> <<>>, group_id_index |-> 1,
     tables |-> <<>>, groups |-> {}, req |-> <<>>]

Raise(M, e) == [M EXCEPT !.err = e]

Send(M, c) == [M EXCEPT !.cmds = Append(@, c)]

\* the call c the builder made in machine state M, with the cursor and the
\* number of commands sent at the call, joins the calls of A
Returned(A, M, c) ==
    [A EXCEPT !.calls = Append(@, c @@ [tag_index |-> M.tag_index, sent |-> Len(M.cmds)])]

\* the builder makes the call c
Call(M, c) == Returned(M, M, c)

\* the function f without the key k (del f[k])
Without(f, k) == [x \in DOMAIN f \ {k} |-> f[x]]

\* f[k] = v, as a dictionary assignment
With(f, k, v) == [x \in DOMAIN f \cup {k} |-> IF x = k THEN v ELSE f[x]]

\* _get_ports(switch_id, dsts): the ports to the switches and to the hosts of dsts
\* (network[switch_id][dst] raises KeyError when dst is no neighbour)
_get_ports(switch, dsts) ==
    [s |-> {src_port(switch, d) : d \in {x \in dsts : ~IsHost(x)}},
     h |-> {src_port(switch, d) : d \in {x \in dsts : IsHost(x)}}]

\* the OutputGroup / Output actions of the switch-side ports, port by port
RECURSIVE SwitchPortActions(_, _, _, _)
SwitchPortActions(FF, key, ports, direct) ==
    IF ports = <<>> THEN <<>>
    ELSE LET port == Head(ports)
             reg == <<port, key>> \in DOMAIN FF
             here == IF direct
                     THEN (IF reg THEN <<>> ELSE << <<"out", port>> >>)
                     ELSE (IF reg THEN [i \in 1..Len(FF[<<port, key>>]) |->
                                          <<"group", FF[<<port, key>>][i][1]>>]
                           ELSE <<>>)
         IN here \o SwitchPortActions(FF, key, Tail(ports), direct)

\* _get_actions without the else of line 374: a port with a registered group
\* gets its output action as well
_get_actions_no_else(FF, key, tag, ports_s, ports_h) ==
    LET ps == SetToSeq(ports_s)
        ph == SetToSeq(ports_h)
        hostouts == [i \in 1..Len(ph) |-> <<"out", ph[i]>>]
        actions_groups == SwitchPortActions(FF, key, ps, FALSE)
        actions_outputs == [i \in 1..Len(ps) |-> <<"out", ps[i]>>]
                             \o (IF tag = None THEN hostouts ELSE <<>>)
        actions_remove_tag == << <<"pop", 0>> >>
                             \o (IF tag = None THEN <<>> ELSE hostouts)
    IN (IF Len(actions_groups) > 0 THEN <<actions_groups>> ELSE <<>>)
       \o (IF Len(actions_outputs) > 0 THEN <<actions_outputs>> ELSE <<>>)
       \o (IF Len(actions_remove_tag) > 1 THEN <<actions_remove_tag>> ELSE <<>>)

\* _get_actions(parser, FF_groups, key, tag, ports_s, ports_h): at most three
\* action lists, for tables 0, 1, ...
_get_actions(FF, key, tag, ports_s, ports_h) ==
    LET ps == SetToSeq(ports_s)
        ph == SetToSeq(ports_h)
        hostouts == [i \in 1..Len(ph) |-> <<"out", ph[i]>>]
        actions_groups == SwitchPortActions(FF, key, ps, FALSE)
        actions_outputs == SwitchPortActions(FF, key, ps, TRUE)
                             \o (IF tag = None THEN hostouts ELSE <<>>)
        actions_remove_tag == << <<"pop", 0>> >>
                             \o (IF tag = None THEN <<>> ELSE hostouts)
    IN (IF Len(actions_groups) > 0 THEN <<actions_groups>> ELSE <<>>)
       \o (IF Len(actions_outputs) > 0 THEN <<actions_outputs>> ELSE <<>>)
       \o (IF Len(actions_remove_tag) > 1 THEN <<actions_remove_tag>> ELSE <<>>)

\* _install_actions(dp, parser, ofp, prio, current_tables, match, actions):
\* MODIFY_STRICT (which changes only an entry that is there) for the tables below
\* current_tables, ADD for the others, DELETE_STRICT for the tables left over
RECURSIVE InstallCmds(_, _, _, _, _)
InstallCmds(switch, key, current_tables, n, i) ==
    IF i >= n /\ i >= current_tables THEN <<>>
    ELSE << <<(IF i >= n THEN "DELETE_STRICT"
               ELSE IF i < current_tables THEN "MODIFY_STRICT" ELSE "ADD"),
              switch, key, i>> >>
         \o InstallCmds(switch, key, current_tables, n, i + 1)

_install_actions(M, switch, key, current_tables, actions) ==
    LET n == Len(actions)
        tb == M.sw[switch].tables
        written == {<<key, i>> : i \in {j \in 0..(n - 1) :
                        j >= current_tables \/ <<key, j>> \in DOMAIN tb}}
        deleted == {<<key, i>> : i \in n..(current_tables - 1)}
        ntb == [k \in (DOMAIN tb \ deleted) \cup written |->
                  IF k \in written
                  THEN [acts |-> actions[k[2] + 1], goto |-> k[2] < n - 1]
                  ELSE tb[k]]
    IN [M EXCEPT !.sw[switch].tables = ntb,
                 !.cmds = @ \o InstallCmds(switch, key, current_tables, n, 0)]

\* the destinations requested for a flow key, after a call with dsts
Requested(M, switch, key, dsts, adding) ==
    LET req == M.sw[switch].req
        old == IF key \in DOMAIN req THEN req[key] ELSE {}
        new == IF adding THEN old \cup dsts ELSE old \ dsts
    IN [M EXCEPT !.sw[switch].req = IF new = {} THEN Without(@, key) ELSE With(@, key, new)]

\* add_flow(switch_id, group, dsts, True, source, tag, forced)
add_flow(M0, switch, dsts, tag, forced) ==
    IF M0.err # "none" THEN M0
    ELSE IF ~(dsts \subseteq Succ(switch)) THEN Raise(M0, "KeyError")
    ELSE
    LET key == tag
        ports == _get_ports(switch, dsts)
        Install(M, ports_s, ports_h, current_tables, actions) ==
            [_install_actions(M, switch, key, current_tables, actions) EXCEPT
                !.sw[switch].flows =
                    With(@, key, [s |-> ports_s, h |-> ports_h, n |-> Len(actions)])]
        Flow(M) ==
            LET S == M.sw[switch]
                exists == key \in DOMAIN S.flows
                          /\ (S.flows[key].s # {} \/ S.flows[key].h # {})
                current_tables == IF exists THEN S.flows[key].n ELSE 0
                install == IF ~exists \/ forced THEN TRUE
                           ELSE ~(ports.s \subseteq S.flows[key].s
                                  /\ ports.h \subseteq S.flows[key].h)
                ports_s == IF exists THEN ports.s \cup S.flows[key].s ELSE ports.s
                ports_h == IF exists THEN ports.h \cup S.flows[key].h ELSE ports.h
            IN IF ~install THEN M
               ELSE Install(M, ports_s, ports_h, current_tables,
                            _get_actions(S.FF_groups, key, tag, ports_s, ports_h))
    IN Flow(Requested(M0, switch, tag, dsts, TRUE))

\* a bucket (port, tag, drop) of the buckets map; port is a port or, once
\* add_backup has coalesced a second backup into it, a list of ports
Bucket(port, tag, drop) ==
    [ports |-> <<port>>, islist |-> FALSE, tag |-> tag, drop |-> drop]

\* _add_group(switch_id, buckets): the new group has id group_id_index
_add_group(M, switch) ==
    LET g_id == M.sw[switch].group_id_index
    IN [Send(M, <<"GROUP_ADD", switch, g_id>>) EXCEPT
           !.sw[switch].groups = @ \cup {g_id},
           !.sw[switch].group_id_index = g_id + 1]

\* _add_FF_group that stores its bucket with the drop mark set
_add_FF_group_dropped(M, switch, g_key, port, tag) ==
    LET g_id == M.sw[switch].group_id_index
    IN [_add_group(M, switch) EXCEPT
           !.sw[switch].FF_groups = With(@, g_key, << <<g_id, 0>> >>),
           !.sw[switch].buckets = With(@, g_id, <<Bucket(port, tag, TRUE)>>)]

\* _add_FF_group(switch_id, g_key, port, tag)
_add_FF_group(M, switch, g_key, port, tag) ==
    LET g_id == M.sw[switch].group_id_index
    IN [_add_group(M, switch) EXCEPT
           !.sw[switch].FF_groups = With(@, g_key, << <<g_id, 0>> >>),
           !.sw[switch].buckets = With(@, g_id, <<Bucket(port, tag, FALSE)>>)]

\* _remove_FF_group, lines 132-139: unregister the keys of the live buckets
\* after bucket 0, from the last one down to the first drop-marked one
RECURSIVE UnregisterBuckets(_, _, _)
UnregisterBuckets(FF, g_buckets, i) ==
    IF i < 2 \/ g_buckets[i].drop THEN [FF |-> FF, err |-> "none"]
    ELSE IF g_buckets[i].islist THEN [FF |-> FF, err |-> "TypeError"]
    ELSE LET k == <<g_buckets[i].ports[1], g_buckets[i].tag>>
         IN IF k \notin DOMAIN FF THEN [FF |-> FF, err |-> "KeyError"]
            ELSE UnregisterBuckets(Without(FF, k), g_buckets, i - 1)

\* _remove_FF_group, lines 150-152: for i in range(0, len(first_groups)), with
\* the length taken before the loop pops
RECURSIVE PopGroup(_, _, _, _)
PopGroup(lst, i, n, g_id) ==
    IF i >= n THEN [lst |-> lst, err |-> "none"]
    ELSE IF i >= Len(lst) THEN [lst |-> lst, err |-> "IndexError"]
    ELSE IF lst[i + 1][1] = g_id
         THEN PopGroup(SubSeq(lst, 1, i) \o SubSeq(lst, i + 2, Len(lst)), i + 1, n, g_id)
         ELSE PopGroup(lst, i + 1, n, g_id)

\* _remove_FF_group(switch_id, g_id, group, source, None)
_remove_FF_group(M, switch, g_id) ==
    IF M.err # "none" THEN M
    ELSE
    LET M0 == [Send(M, <<"GROUP_DELETE", switch, g_id>>) EXCEPT
                  !.sw[switch].groups = @ \ {g_id}]
        S == M.sw[switch]
    IN IF g_id \notin DOMAIN S.buckets THEN Raise(M0, "KeyError")
       ELSE
       LET g_buckets == S.buckets[g_id]
           U == UnregisterBuckets(S.FF_groups, g_buckets, Len(g_buckets))
           M1 == [M0 EXCEPT !.sw[switch].FF_groups = U.FF]
       IN IF U.err # "none" THEN Raise(M1, U.err)
          ELSE IF Len(g_buckets) = 0 THEN Raise(M1, "IndexError")
          ELSE IF g_buckets[1].islist THEN Raise(M1, "TypeError")
          ELSE
          LET f_g_key == <<g_buckets[1].ports[1], g_buckets[1].tag>>
          IN IF f_g_key \notin DOMAIN U.FF THEN Raise(M1, "KeyError")
             ELSE
             LET first_groups == U.FF[f_g_key]
                 P == PopGroup(first_groups, 0, Len(first_groups), g_id)
             IN IF P.err # "none"
                THEN Raise([M1 EXCEPT !.sw[switch].FF_groups[f_g_key] = P.lst], P.err)
                ELSE [M1 EXCEPT
                        !.sw[switch].FF_groups =
                            IF Len(P.lst) = 0 THEN Without(@, f_g_key)
                            ELSE [@ EXCEPT ![f_g_key] = P.lst],
                        !.sw[switch].buckets = Without(@, g_id)]

\* remove_flow, lines 484-485 and 491-492: for g_id, index in FF_groups[g_key],
\* a loop over a list that _remove_FF_group pops from while it is iterated
RECURSIVE RemoveGroupsOf(_, _, _, _, _)
RemoveGroupsOf(M, switch, g_key, lst, i) ==
    IF M.err # "none" \/ i > Len(lst) THEN M
    ELSE
    LET g_id == lst[i][1]
        B == M.sw[switch].buckets
        same == /\ g_id \in DOMAIN B
                /\ Len(B[g_id]) > 0
                /\ ~B[g_id][1].islist
                /\ <<B[g_id][1].ports[1], B[g_id][1].tag>> = g_key
        Rest(M1) ==
            LET FF1 == M1.sw[switch].FF_groups
            IN RemoveGroupsOf(M1, switch, g_key,
                              IF ~same THEN lst
                              ELSE IF g_key \in DOMAIN FF1 THEN FF1[g_key] ELSE <<>>,
                              i + 1)
    IN Rest(_remove_FF_group(M, switch, g_id))

\* remove_flow, lines 479-492: the groups of the removed switch-side ports
RECURSIVE RemoveGroupsOfPorts(_, _, _, _)
RemoveGroupsOfPorts(M, switch, key, ports) ==
    IF M.err # "none" \/ ports = <<>> THEN M
    ELSE LET g_key == <<Head(ports), key>>
             FF == M.sw[switch].FF_groups
             M1 == IF g_key \in DOMAIN FF
                   THEN RemoveGroupsOf(M, switch, g_key, FF[g_key], 1)
                   ELSE M
         IN RemoveGroupsOfPorts(M1, switch, key, Tail(ports))

\* remove_flow(switch_id, group, dsts, True, source, tag); all is dsts == 'all'.
\* The DELETE_STRICT of lines 465-468 names no table, which is table 0; the log
\* of lines 494-495 reads ports_s, unbound when dsts == 'all'
remove_flow(M0, switch, all, dsts, tag) ==
    IF M0.err # "none" THEN M0
    ELSE
    LET key == tag
        Log(M3) == IF M3.err = "none" /\ all THEN Raise(M3, "UnboundLocalError") ELSE M3
        Flow(M) ==
            LET S == M.sw[switch]
            IN IF key \notin DOMAIN S.flows THEN M
               ELSE IF ~all /\ ~(dsts \subseteq Succ(switch)) THEN Raise(M0, "KeyError")
               ELSE
               LET cur == S.flows[key]
                   ports == _get_ports(switch, dsts)
                   other_s == IF all THEN {} ELSE cur.s \ ports.s
                   other_h == IF all THEN {} ELSE cur.h \ ports.h
                   empty == other_s = {} /\ other_h = {}
                   Written(M1, n) ==
                       [M1 EXCEPT !.sw[switch].flows =
                           IF empty THEN Without(@, key)
                           ELSE [@ EXCEPT ![key] =
                                   [s |-> other_s, h |-> other_h, n |-> n]]]
                   Write(actions) ==
                       Written(IF empty
                               THEN [M EXCEPT
                                       !.sw[switch].tables =
                                           IF cur.n > 0 THEN Without(@, <<key, 0>>) ELSE @,
                                       !.cmds = @ \o [i \in 1..cur.n |->
                                                        <<"DELETE_STRICT", switch, key, 0>>]]
                               ELSE _install_actions(M, switch, key, cur.n, actions),
                               Len(actions))
                   removed == IF all THEN cur.s ELSE ports.s \cap cur.s
               IN Log(RemoveGroupsOfPorts(
                        Write(_get_actions(S.FF_groups, key, tag, other_s, other_h)),
                        switch, key, SetToSeq(removed)))
    IN Flow(Requested(M0, switch, tag, IF all THEN Nodes ELSE dsts, FALSE))

\* add_backup that puts the backup port in the place of the bucket's ports
\* (lines 603-606)
CoalesceBackup_replaces(M, switch, base_id, index, b_g_key, backup_port, tag) ==
    [Send(M, <<"GROUP_MODIFY", switch, base_id>>) EXCEPT
       !.sw[switch].buckets[base_id][index + 2] = Bucket(backup_port, tag, FALSE),
       !.sw[switch].FF_groups = With(@, b_g_key, << <<base_id, index>> >>)]

\* add_backup that appends the backup to the base group instead of lines 601-614
CoalesceBackup_appends(M, switch, base_id, index, b_g_key, backup_port, tag) ==
    [Send(M, <<"GROUP_MODIFY", switch, base_id>>) EXCEPT
       !.sw[switch].buckets[base_id] = Append(@, Bucket(backup_port, tag, FALSE)),
       !.sw[switch].FF_groups = With(@, b_g_key, << <<base_id, index>> >>)]

\* add_backup, lines 601-614: the backup port joins the bucket after the
\* protected level, and the key is registered with index, not index + 1
CoalesceBackup(M, switch, base_id, index, b_g_key, backup_port, tag) ==
    LET base_group == M.sw[switch].buckets[base_id]
        b == base_group[index + 2]
        nb == IF b.islist THEN [b EXCEPT !.ports = Append(@, backup_port)]
              ELSE [ports |-> Append(b.ports, backup_port), islist |-> TRUE,
                    tag |-> tag, drop |-> FALSE]
    IN IF Len(base_group) < index + 2 THEN Raise(M, "IndexError")
       ELSE [Send(M, <<"GROUP_MODIFY", switch, base_id>>) EXCEPT
               !.sw[switch].buckets[base_id][index + 2] = nb,
               !.sw[switch].FF_groups = With(@, b_g_key, << <<base_id, index>> >>)]

\* add_backup, lines 616-640: a new group that copies buckets 0..index of the
\* base group as drop-marked buckets and ends with the new backup bucket
CloneBackup(M, switch, base_id, index, b_g_key, backup_port, tag) ==
    LET base_group == M.sw[switch].buckets[base_id]
        b_group == [i \in 1..(index + 1) |-> [base_group[i] EXCEPT !.drop = TRUE]]
                     \o <<Bucket(backup_port, tag, FALSE)>>
        g_id == M.sw[switch].group_id_index
        M1 == [_add_group(M, switch) EXCEPT !.sw[switch].buckets = With(@, g_id, b_group)]
        f_g_key == <<b_group[1].ports[1], b_group[1].tag>>
        M2 == [M1 EXCEPT
                 !.sw[switch].FF_groups =
                     With([@ EXCEPT ![f_g_key] = Append(@, <<g_id, 0>>)],
                          b_g_key, << <<g_id, index + 1>> >>)]
    IN IF Len(base_group) < index + 1 THEN Raise(M, "IndexError")
       ELSE IF \E i \in 1..(index + 1) : base_group[i].islist
            THEN Raise(M, "SharedPortList")
       ELSE IF f_g_key \notin DOMAIN M1.sw[switch].FF_groups THEN Raise(M1, "KeyError")
       ELSE add_flow(M2, switch, {}, b_group[1].tag, TRUE)

\* add_backup(prev_switch_id, switch_id, group, dst, backup_dst, source, tag,
\*            tag_origin, needs_backup)
add_backup(M, prev, switch, dst, backup_dst, tag, tag_origin, needs_backup) ==
    IF M.err # "none" THEN M
    ELSE IF \/ (prev # None /\ switch \notin Succ(prev))
            \/ dst \notin Succ(switch)
            \/ backup_dst \notin Succ(switch) THEN Raise(M, "KeyError")
    ELSE
    LET port == src_port(switch, dst)
        backup_port == src_port(switch, backup_dst)
        b_g_key == <<backup_port, tag>>
        g_key == <<port, tag_origin>>
        Backup(M1) ==
            LET S1 == M1.sw[switch]
                base_id == S1.FF_groups[g_key][1][1]
                index == S1.FF_groups[g_key][1][2]
            IN IF M1.err # "none" THEN M1
               ELSE IF base_id \notin DOMAIN S1.buckets THEN Raise(M1, "KeyError")
               ELSE IF Len(S1.buckets[base_id]) = index + 1
                    THEN [Send(M1, <<"GROUP_MODIFY", switch, base_id>>) EXCEPT
                            !.sw[switch].buckets[base_id] =
                                Append(@, Bucket(backup_port, tag, FALSE)),
                            !.sw[switch].FF_groups =
                                With(@, b_g_key, << <<base_id, index + 1>> >>)]
               ELSE IF ~needs_backup
                    THEN CoalesceBackup(M1, switch, base_id, index, b_g_key,
                                        backup_port, tag)
               ELSE CloneBackup(M1, switch, base_id, index, b_g_key, backup_port, tag)
    IN IF b_g_key \in DOMAIN M.sw[switch].FF_groups THEN M
       ELSE Backup(IF g_key \notin DOMAIN M.sw[switch].FF_groups
                   THEN add_flow(_add_FF_group(M, switch, g_key, port, tag_origin),
                                 switch, {}, tag_origin, TRUE)
                   ELSE M)

\* remove_backup, lines 707-710: the groups registered under the key of the
\* first bucket whose bucket at their registered index is the backup; the loop
\* variable is named index, so the index read from the backup's entry is lost
RECURSIVE CopiesToRemove(_, _, _, _, _)
CopiesToRemove(B, lst, i, backup_port, tag) ==
    IF i > Len(lst) THEN [rem |-> <<>>, err |-> "none"]
    ELSE LET g_id == lst[i][1]
             index == lst[i][2]
         IN IF g_id \notin DOMAIN B THEN [rem |-> <<>>, err |-> "KeyError"]
            ELSE IF index >= Len(B[g_id]) THEN [rem |-> <<>>, err |-> "IndexError"]
            ELSE LET bucket == B[g_id][index + 1]
                     hit == /\ bucket.tag = tag
                            /\ IF bucket.islist THEN backup_port \in Range(bucket.ports)
                               ELSE bucket.ports[1] = backup_port
                     R == CopiesToRemove(B, lst, i + 1, backup_port, tag)
                 IN [rem |-> (IF hit THEN <<g_id>> ELSE <<>>) \o R.rem, err |-> R.err]

\* remove_backup, lines 726-731: unregister the live buckets from index on
RECURSIVE UnregisterFrom(_, _, _)
UnregisterFrom(FF, group, i) ==
    IF i > Len(group) THEN [FF |-> FF, err |-> "none"]
    ELSE IF group[i].drop THEN UnregisterFrom(FF, group, i + 1)
    ELSE IF group[i].islist THEN [FF |-> FF, err |-> "TypeError"]
    ELSE LET k == <<group[i].ports[1], group[i].tag>>
         IN IF k \notin DOMAIN FF THEN [FF |-> FF, err |-> "KeyError"]
            ELSE UnregisterFrom(Without(FF, k), group, i + 1)

\* remove_backup, lines 712-734, that removes the group when the bucket before
\* the backup's is the base bucket as well (index <= 1 at line 715)
RECURSIVE RemoveOrTruncate_after_base(_, _, _, _, _)
RemoveOrTruncate_after_base(M, switch, rem, index, removed) ==
    IF M.err # "none" \/ rem = <<>> THEN [M |-> M, removed |-> removed]
    ELSE
    LET g_id == Head(rem)
        S == M.sw[switch]
    IN IF g_id \notin DOMAIN S.buckets
       THEN [M |-> Raise(M, "KeyError"), removed |-> removed]
       ELSE
       LET group == S.buckets[g_id]
       IN IF index > 0 /\ index - 1 >= Len(group)
          THEN [M |-> Raise(M, "IndexError"), removed |-> removed]
          ELSE IF index <= 1 \/ group[index].drop
          THEN RemoveOrTruncate_after_base(_remove_FF_group(M, switch, g_id), switch,
                                Tail(rem), index, TRUE)
          ELSE IF index >= Len(group)
          THEN [M |-> Raise(M, "IndexError"), removed |-> removed]
          ELSE
          LET U == UnregisterFrom(S.FF_groups, group, index + 1)
              M1 == [M EXCEPT !.sw[switch].FF_groups = U.FF]
          IN IF U.err # "none" THEN [M |-> Raise(M1, U.err), removed |-> removed]
             ELSE RemoveOrTruncate_after_base(
                    [Send(M1, <<"GROUP_MODIFY", switch, g_id>>) EXCEPT
                        !.sw[switch].buckets[g_id] = SubSeq(group, 1, index)],
                    switch, Tail(rem), index, removed)

\* remove_backup, lines 712-734, without line 718: removed_group stays False
\* and the flow is not installed again
RECURSIVE RemoveOrTruncate_unflagged(_, _, _, _, _)
RemoveOrTruncate_unflagged(M, switch, rem, index, removed) ==
    IF M.err # "none" \/ rem = <<>> THEN [M |-> M, removed |-> removed]
    ELSE
    LET g_id == Head(rem)
        S == M.sw[switch]
    IN IF g_id \notin DOMAIN S.buckets
       THEN [M |-> Raise(M, "KeyError"), removed |-> removed]
       ELSE
       LET group == S.buckets[g_id]
       IN IF index > 0 /\ index - 1 >= Len(group)
          THEN [M |-> Raise(M, "IndexError"), removed |-> removed]
          ELSE IF index = 0 \/ group[index].drop
          THEN RemoveOrTruncate_unflagged(_remove_FF_group(M, switch, g_id), switch,
                                Tail(rem), index, removed)
          ELSE IF index >= Len(group)
          THEN [M |-> Raise(M, "IndexError"), removed |-> removed]
          ELSE
          LET U == UnregisterFrom(S.FF_groups, group, index + 1)
              M1 == [M EXCEPT !.sw[switch].FF_groups = U.FF]
          IN IF U.err # "none" THEN [M |-> Raise(M1, U.err), removed |-> removed]
             ELSE RemoveOrTruncate_unflagged(
                    [Send(M1, <<"GROUP_MODIFY", switch, g_id>>) EXCEPT
                        !.sw[switch].buckets[g_id] = SubSeq(group, 1, index)],
                    switch, Tail(rem), index, removed)

\* remove_backup, lines 712-734: for g_id in rem_groups; the result's field
\* removed is removed_group
RECURSIVE RemoveOrTruncate(_, _, _, _, _)
RemoveOrTruncate(M, switch, rem, index, removed) ==
    IF M.err # "none" \/ rem = <<>> THEN [M |-> M, removed |-> removed]
    ELSE
    LET g_id == Head(rem)
        S == M.sw[switch]
    IN IF g_id \notin DOMAIN S.buckets
       THEN [M |-> Raise(M, "KeyError"), removed |-> removed]
       ELSE
       LET group == S.buckets[g_id]
       IN IF index > 0 /\ index - 1 >= Len(group)
          THEN [M |-> Raise(M, "IndexError"), removed |-> removed]
          ELSE IF index = 0 \/ group[index].drop
          THEN RemoveOrTruncate(_remove_FF_group(M, switch, g_id), switch,
                                Tail(rem), index, TRUE)
          ELSE IF index >= Len(group)
          THEN [M |-> Raise(M, "IndexError"), removed |-> removed]
          ELSE
          LET U == UnregisterFrom(S.FF_groups, group, index + 1)
              M1 == [M EXCEPT !.sw[switch].FF_groups = U.FF]
          IN IF U.err # "none" THEN [M |-> Raise(M1, U.err), removed |-> removed]
             ELSE RemoveOrTruncate(
                    [Send(M1, <<"GROUP_MODIFY", switch, g_id>>) EXCEPT
                        !.sw[switch].buckets[g_id] = SubSeq(group, 1, index)],
                    switch, Tail(rem), index, removed)

\* remove_backup(prev_switch_id, switch_id, group, dst, backup_dst, source, tag)
remove_backup(M, prev, switch, dst, backup_dst, tag) ==
    IF M.err # "none" THEN M
    ELSE IF \/ (prev # None /\ switch \notin Succ(prev))
            \/ dst \notin Succ(switch)
            \/ backup_dst \notin Succ(switch) THEN Raise(M, "KeyError")
    ELSE
    LET S == M.sw[switch]
        backup_port == src_port(switch, backup_dst)
        b_g_key == <<backup_port, tag>>
    IN IF b_g_key \notin DOMAIN S.FF_groups THEN M
       ELSE
       LET base_id == S.FF_groups[b_g_key][1][1]
           index0 == S.FF_groups[b_g_key][1][2]
       IN IF base_id \notin DOMAIN S.buckets THEN Raise(M, "KeyError")
          ELSE IF Len(S.buckets[base_id]) = 0 THEN Raise(M, "IndexError")
          ELSE
          LET base_group == S.buckets[base_id]
              first == base_group[1]
              last == Len(base_group) = index0 + 1
              f_g_key == <<first.ports[1], first.tag>>
              lst == S.FF_groups[f_g_key]
              C == CopiesToRemove(S.buckets, lst, 1, backup_port, tag)
              index == IF last \/ Len(lst) = 0 THEN index0 ELSE lst[Len(lst)][2]
              Reinstall(R) ==
                  IF R.removed THEN add_flow(R.M, switch, {}, first.tag, TRUE) ELSE R.M
          IN IF ~last /\ first.islist THEN Raise(M, "TypeError")
             ELSE IF ~last /\ f_g_key \notin DOMAIN S.FF_groups THEN Raise(M, "KeyError")
             ELSE IF ~last /\ C.err # "none" THEN Raise(M, C.err)
             ELSE Reinstall(RemoveOrTruncate(M, switch,
                                             IF last THEN <<base_id>> ELSE C.rem,
                                             index, FALSE))

(***************************************************************************)
(* AbstractTreeBuilder / PerLinkTreeBuilder.  Python 2 iterates a set or a *)
(* dict of small integers in ascending order.                              *)
(***************************************************************************)
\* AbstractTreeBuilder.max_vid
max_vid == 4094

\* the names of the hierarchy that start with the name p
Below(trees, p) ==
    {n \in DOMAIN trees : Len(n) >= Len(p) /\ SubSeq(n, 1, Len(p)) = p}

\* T[x][y]['backup'] = None, or the edge (x, y) of t goes: the backup attached
\* to it and everything attached below are no longer referenced
Detach(trees, t, x, y) ==
    [n \in DOMAIN trees \ Below(trees, Append(t, <<x, y>>)) |-> trees[n]]

\* _create_tree that takes the parent for the primary (line 60)
_create_tree_parent_primary(M, switch_id, parent, predecessor_switch) ==
    [tree |-> Tree(switch_id, {parent}, parent, predecessor_switch, M.tag_index),
     M |-> [M EXCEPT !.tag_index =
                IF M.tag_index + 1 > max_vid THEN 1 ELSE M.tag_index + 1]]

\* _create_tree that leaves tag_index as it is (lines 66-69)
_create_tree_same_tag(M, switch_id, parent, predecessor_switch) ==
    [tree |-> Tree(switch_id, {parent}, M.trees[parent].primary,
                   predecessor_switch, M.tag_index),
     M |-> M]

\* _create_tree without the wrap of lines 66-67
_create_tree_no_wrap(M, switch_id, parent, predecessor_switch) ==
    [tree |-> Tree(switch_id, {parent}, M.trees[parent].primary,
                   predecessor_switch, M.tag_index),
     M |-> [M EXCEPT !.tag_index = M.tag_index + 1]]

\* _create_tree(switch_id, parent, predecessor_switch) for a backup of the tree
\* named parent: the new tree, and the machine state with the tag taken
_create_tree(M, switch_id, parent, predecessor_switch) ==
    [tree |-> Tree(switch_id, {parent}, M.trees[parent].primary,
                   predecessor_switch, M.tag_index),
     M |-> [M EXCEPT !.tag_index =
                IF M.tag_index + 1 > max_vid THEN 1 ELSE M.tag_index + 1]]

\* _undo_tree without the wrap of lines 81-82
_undo_tree_no_wrap(M) == [M EXCEPT !.tag_index = M.tag_index - 1]

\* _undo_tree(tree) for a backup
_undo_tree(M) ==
    [M EXCEPT !.tag_index = IF M.tag_index - 1 < 1 THEN max_vid ELSE M.tag_index - 1]

\* _add_path(group, source, tree, path): from the tail of the path back to the
\* first edge the tree already has; i is the Python index of cur
RECURSIVE _add_path(_, _, _, _)
_add_path(M, t, path, i) ==
    IF M.err # "none" \/ i < 1 THEN M
    ELSE LET prev == path[i]
             cur == path[i + 1]
             T == M.trees[t]
             Added(M1) ==
                 IF M1.err # "none" THEN M1
                 ELSE _add_path([M1 EXCEPT !.trees[t] = add_edge(@, prev, cur)],
                                t, path, i - 1)
         IN IF prev \in T.nodes /\ cur \in TSucc(T, prev) THEN M
            ELSE Added(add_flow(Call(M, [op |-> "add_flow", tree |-> t, switch |-> prev,
                                             dst |-> cur]),
                                prev, {cur}, T.tag, FALSE))

\* _process_request, lines 32-65: the edge (path[i-1], path[i]) of a queue entry
\* (path, T, down); the result's field queue holds the entry it appends
ProtectEdge(M, F, v, path, t, down, i) ==
    LET x == path[i]
        y == path[i + 1]
        T == M.trees[t]
        predecessor == IF i >= 2 THEN path[i - 1] ELSE T.predecessor_switch
        b == Append(t, <<x, y>>)
        C == _create_tree(Call(M, [op |-> "_create_tree", tree |-> b]), x, t, predecessor)
        M1 == IF b \in DOMAIN M.trees THEN M
              ELSE [C.M EXCEPT !.trees = With(@, b, C.tree)]
        backup == M1.trees[b]
        L == down \cup {<<x, y>>, <<y, x>>}
        not_done == (Cardinality(L) \div 2) < F
        Attached(A, z) ==
            IF A.err # "none" THEN A ELSE [A EXCEPT !.trees[b] = add_edge(@, x, z)]
        NoPath == Call(M1, [op |-> "log", tree |-> b, empty |-> backup.edges = {}])
        Protecting(z, A) ==
            Returned(A, M1,
                     [op |-> "add_backup", tree |-> b, switch |-> x, dst |-> y,
                      backup_dst |-> z, tag |-> backup.tag, tag_origin |-> T.tag,
                      needs_backup |-> not_done, before |-> M1.sw[x],
                      after |-> A.sw[x], err |-> A.err,
                      cmds |-> SubSeq(A.cmds, Len(M1.cmds) + 1, Len(A.cmds))])
        Queued(M3, b_path) ==
            [M |-> M3,
             queue |-> IF not_done /\ M3.err = "none"
                       THEN << [path |-> b_path, tree |-> b, down |-> L] >>
                       ELSE <<>>]
        Protect(b_path) ==
            IF Len(b_path) > 0
            THEN Queued(_add_path(IF b_path[2] \notin TSucc(backup, x)
                                  THEN Attached(Protecting(b_path[2],
                                                           add_backup(M1, predecessor, x, y,
                                                                      b_path[2], backup.tag,
                                                                      T.tag, not_done)),
                                                b_path[2])
                                  ELSE M1,
                                  b, Tail(b_path), Len(b_path) - 2),
                        b_path)
            ELSE [M |-> IF backup.edges = {}
                        THEN _undo_tree(Call([NoPath EXCEPT !.trees = Detach(@, t, x, y)],
                                             [op |-> "_undo_tree", tree |-> b,
                                              tag |-> backup.tag]))
                        ELSE NoPath,
                  queue |-> <<>>]
    IN IF <<x, y>> \notin T.edges THEN [M |-> Raise(M, "KeyError"), queue |-> <<>>]
       ELSE Protect(join(M.dead, L, backup, v))

\* _process_request, lines 28-65: while len(queue) > 0, with the for loop over
\* the edges of the entry at the head
RECURSIVE ProcessQueue(_, _, _, _, _)
ProcessQueue(M, F, v, queue, i) ==
    IF M.err # "none" \/ queue = <<>> THEN M
    ELSE IF i >= Len(Head(queue).path) THEN ProcessQueue(M, F, v, Tail(queue), 1)
    ELSE LET Rest(R) == ProcessQueue(R.M, F, v, queue \o R.queue, i + 1)
         IN Rest(ProtectEdge(M, F, v, Head(queue).path, Head(queue).tree,
                             Head(queue).down, i))

\* list(T.predecessors(cur))[0]
Pre(T, cur) == CHOOSE p \in TPred(T, cur) : \A q \in TPred(T, cur) : p <= q

\* T.remove_node(cur): the node, its edges and the backups attached to them go
RECURSIVE DetachAll(_, _, _)
DetachAll(trees, t, es) ==
    IF es = {} THEN trees
    ELSE LET e == CHOOSE d \in es : TRUE
         IN DetachAll(Detach(trees, t, e[1], e[2]), t, es \ {e})

remove_node(trees, t, cur) ==
    LET gone == {e \in trees[t].edges : e[1] = cur \/ e[2] = cur}
    IN [DetachAll(trees, t, gone) EXCEPT
          ![t].nodes = @ \ {cur}, ![t].edges = @ \ gone]

\* _leave, lines 208-218: the flows (in the root of a backup: the backup bucket)
\* of the chain that ends in v
RECURSIVE LeaveFlows(_, _, _, _)
LeaveFlows(M, t, origin_dst, cur) ==
    LET T == M.trees[t]
    IN IF M.err # "none" \/ out_degree(T, cur) > 1 \/ cur = T.root THEN M
       ELSE IF TPred(T, cur) = {} THEN Raise(M, "IndexError")
       ELSE LET pre == Pre(T, cur)
                Removing(A) ==
                    Returned(A, M, [op |-> "remove_backup", tree |-> t, switch |-> pre,
                                    dst |-> origin_dst, backup_dst |-> cur, tag |-> T.tag,
                                    before |-> M.sw[pre], after |-> A.sw[pre],
                                    err |-> A.err,
                                    cmds |-> SubSeq(A.cmds, Len(M.cmds) + 1, Len(A.cmds))])
                Removed(A) ==
                    Returned(A, M, [op |-> "remove_flow", tree |-> t, switch |-> pre,
                                    dst |-> cur, tag |-> T.tag,
                                    before |-> M.sw[pre], after |-> A.sw[pre],
                                    err |-> A.err,
                                    cmds |-> SubSeq(A.cmds, Len(M.cmds) + 1, Len(A.cmds))])
                M1 == IF pre # T.root \/ t = Primary
                      THEN Removed(remove_flow(M, pre, FALSE, {cur}, T.tag))
                      ELSE Removing(remove_backup(M, T.predecessor_switch, pre,
                                                  origin_dst, cur, T.tag))
            IN LeaveFlows(M1, t, origin_dst, pre)

\* _leave, lines 230-236: the nodes of the chain that ends in v
RECURSIVE LeaveNodes(_, _, _)
LeaveNodes(M, t, cur) ==
    LET T == M.trees[t]
    IN IF M.err # "none" \/ out_degree(T, cur) # 0 \/ cur = T.root THEN M
       ELSE IF TPred(T, cur) = {} THEN Raise(M, "IndexError")
       ELSE LeaveNodes([M EXCEPT !.trees = remove_node(@, t, cur)], t, Pre(T, cur))

\* lines 220-228 without the call of line 226: the walk from v up to the root
\* that leaves the backups as they are
RECURSIVE LeaveBackups_skipped(_, _, _, _)
LeaveBackups_skipped(M, t, v, cur) ==
    LET T == M.trees[t]
    IN IF M.err # "none" \/ cur = T.root THEN M
       ELSE IF TPred(T, cur) = {} THEN Raise(M, "IndexError")
       ELSE LeaveBackups_skipped(M, t, v, Pre(T, cur))

\* _leave(T, v, group, source, origin_dst); LeaveBackups is lines 220-228, the
\* backups attached along the path from v up to the root
RECURSIVE _leave(_, _, _, _)
RECURSIVE LeaveBackups(_, _, _, _)
LeaveBackups(M, t, v, cur) ==
    LET T == M.trees[t]
    IN IF M.err # "none" \/ cur = T.root THEN M
       ELSE IF TPred(T, cur) = {} THEN Raise(M, "IndexError")
       ELSE LET pre == Pre(T, cur)
                b == Append(t, <<pre, cur>>)
                M1 == IF b \in DOMAIN M.trees THEN _leave(M, b, v, cur) ELSE M
            IN LeaveBackups(M1, t, v, pre)

_leave(M, t, v, origin_dst) ==
    IF M.err # "none" THEN M
    ELSE IF v \notin M.trees[t].nodes \/ v = M.trees[t].root THEN M
    ELSE LeaveNodes(LeaveBackups(LeaveFlows(M, t, origin_dst, v), t, v, v), t, v)

\* _process_request that queues the primary path whatever F is (line 25)
_process_request_always_queues(M, v, r, F) ==
    IF ~r THEN _leave(M, Primary, v, None)
    ELSE LET Join(path) ==
                 IF Len(path) = 0 THEN M
                 ELSE ProcessQueue(_add_path(M, Primary, path, Len(path) - 1), F, v,
                                   << [path |-> path, tree |-> Primary, down |-> {}] >>, 1)
         IN Join(join(M.dead, {}, M.trees[Primary], v))

\* _process_request(T, v, r, F, group, source)
_process_request(M, v, r, F) ==
    IF ~r THEN _leave(M, Primary, v, None)
    ELSE LET Join(path) ==
                 IF Len(path) = 0 THEN M
                 ELSE ProcessQueue(_add_path(M, Primary, path, Len(path) - 1), F, v,
                                   IF F > 0
                                   THEN << [path |-> path, tree |-> Primary,
                                            down |-> {}] >>
                                   ELSE <<>>, 1)
         IN Join(join(M.dead, {}, M.trees[Primary], v))

\* _remove_all_flows(group, source, tree): for node in tree, and for dst in
\* dsts inside it
RECURSIVE _remove_all_flows(_, _)
RECURSIVE RemoveAllFrom(_, _, _)
RECURSIVE RemoveAllBelow(_, _, _, _)
RemoveAllBelow(M, t, node, dsts) ==
    IF M.err # "none" \/ dsts = <<>> THEN M
    ELSE LET b == Append(t, <<node, Head(dsts)>>)
             M1 == IF b \in DOMAIN M.trees THEN _remove_all_flows(M, b) ELSE M
         IN RemoveAllBelow(M1, t, node, Tail(dsts))

RemoveAllFrom(M, t, nodes) ==
    IF M.err # "none" \/ nodes = <<>> THEN M
    ELSE LET node == Head(nodes)
             T == M.trees[t]
             dsts == SetToSeq(TSucc(T, node))
             M1 == IF Len(dsts) > 0
                   THEN RemoveAllBelow(remove_flow(M, node, TRUE, {}, T.tag),
                                       t, node, dsts)
                   ELSE M
         IN RemoveAllFrom(M1, t, Tail(nodes))

_remove_all_flows(M, t) == RemoveAllFrom(M, t, SetToSeq(M.trees[t].nodes))

\* create_group(group, source, switch_id)
create_group(M, switch_id) ==
    IF Primary \in DOMAIN M.trees THEN M
    ELSE [M EXCEPT !.trees = With(<<>>, Primary, Tree(switch_id, {}, Primary, None, None)),
                   !.tag_index = 1]

\* add_subscriber that creates the tree of a group it does not know
add_subscriber_creates(M, F, subscriber) ==
    IF Primary \notin DOMAIN M.trees
    THEN create_group(M, 1)
    ELSE IF subscriber \in M.trees[Primary].nodes THEN M
    ELSE _process_request(M, subscriber, TRUE, F)

\* add_subscriber(group, source, subscriber)
add_subscriber(M, F, subscriber) ==
    IF Primary \notin DOMAIN M.trees THEN M
    ELSE IF subscriber \in M.trees[Primary].nodes THEN M
    ELSE _process_request(M, subscriber, TRUE, F)

\* remove_subscriber(group, source, subscriber)
remove_subscriber(M, F, subscriber) ==
    IF Primary \notin DOMAIN M.trees THEN M
    ELSE IF subscriber \notin M.trees[Primary].nodes THEN M
    ELSE _process_request(M, subscriber, FALSE, F)

\* remove_group(group, source)
remove_group(M) ==
    IF Primary \notin DOMAIN M.trees THEN M
    ELSE LET Delete(M1) == IF M1.err # "none" THEN M1 ELSE [M1 EXCEPT !.trees = <<>>]
         IN Delete(_remove_all_flows(M, Primary))

(***************************************************************************)
(* The state machine.  F is the builder's fault tolerance, fixed when the  *)
(* controller constructs its PerLinkTreeBuilder; the multicast source is   *)
(* behind switch Root.  ops counts the operations that changed the state.  *)
(* Three variables record the run and are read by no operation:            *)
(*   last    the operation that ran last, with its argument                *)
(*   snap    after add_subscriber(h), and after the remove_subscriber(h)   *)
(*           that directly follows it: h, the state before the add and the *)
(*           exception of the add                                          *)
(*   joined  while nothing but add_subscriber has changed the state since  *)
(*           the group was created: the state at creation and the          *)
(*           subscribers added, in order                                   *)
(***************************************************************************)
MaxF == 3
MaxOps == 5
MaxDown == 1
Root == 1

\* the links whose failure and recovery the topology events report
Failable == {<<1, 2>>, <<1, 3>>}

\* the switches whose departure the topology events report
Leaving == {4}

VARIABLES F, trees, tag_index, sw, dead, cmds, err, ops, last, snap, joined, calls

vars == <<F, trees, tag_index, sw, dead, cmds, err, ops, last, snap, joined, calls>>

\* the machine state at the start of an operation
Cur ==
    [trees |-> trees, tag_index |-> tag_index, sw |-> sw, dead |-> dead,
     cmds |-> <<>>, err |-> "none", calls |-> <<>>]

\* the controller's maps of every switch
Maps(w) ==
    [s \in Switches |->
       [flows |-> w[s].flows, FF_groups |-> w[s].FF_groups, buckets |-> w[s].buckets]]

NoSnap == [h |-> None]
NoJoined == [valid |-> FALSE]

\* the machine state M that operation o leaves
Commit(M, o) ==
    LET changed == <<M.trees, M.tag_index, M.sw, M.dead>> # <<trees, tag_index, sw, dead>>
    IN /\ ops < MaxOps
       /\ trees' = M.trees
       /\ tag_index' = M.tag_index
       /\ sw' = M.sw
       /\ dead' = M.dead
       /\ cmds' = M.cmds
       /\ err' = M.err
       /\ calls' = M.calls
       /\ ops' = IF changed THEN ops + 1 ELSE ops
       /\ F' = F
       /\ last' = o
       /\ snap' = IF o[1] = "add_subscriber"
                  THEN [h |-> o[2], trees |-> trees, maps |-> Maps(sw), err |-> M.err]
                  ELSE IF o[1] = "remove_subscriber" /\ last = <<"add_subscriber", o[2]>>
                  THEN snap
                  ELSE NoSnap
       /\ joined' = IF o[1] = "create_group" /\ changed
                    THEN [valid |-> TRUE, base |-> M, order |-> <<>>]
                    ELSE IF ~changed THEN joined
                    ELSE IF o[1] = "add_subscriber" /\ joined.valid /\ M.err = "none"
                    THEN [joined EXCEPT !.order = Append(@, o[2])]
                    ELSE NoJoined

\* switchEnter for every switch, linkAdd for every link, hostFound for every
\* host; no group yet
Init ==
    /\ F \in 0..MaxF
    /\ trees = <<>>
    /\ tag_index = 1
    /\ sw = [s \in Switches |-> NoSwitchState]
    /\ dead = {}
    /\ cmds = <<>>
    /\ err = "none"
    /\ ops = 0
    /\ last = <<"init", None>>
    /\ snap = NoSnap
    /\ joined = NoJoined
    /\ calls = <<>>

\* processIPMulticast: the first packet of the source reaches switch Root
CreateGroup == Commit(create_group(Cur, Root), <<"create_group", Root>>)

\* processIGMP: a report of host h that includes the source
AddSubscriber(h) == Commit(add_subscriber(Cur, F, h), <<"add_subscriber", h>>)

\* processIGMP: a report of host h that excludes the source
RemoveSubscriber(h) == Commit(remove_subscriber(Cur, F, h), <<"remove_subscriber", h>>)

RemoveGroup == Commit(remove_group(Cur), <<"remove_group", None>>)

\* linkDelete(ev): the link is in the network; builder.repair returns at once
linkDelete(M, e) == [M EXCEPT !.dead = @ \cup {e}]

\* linkAdd(ev)
linkAdd(M, e) == [M EXCEPT !.dead = @ \ {e}]

\* switchLeave without the loop over network.predecessors(sid)
switchLeave_successors_only(M, sid) ==
    [M EXCEPT !.dead = @ \cup {e \in Edges : e[1] = sid}]

\* switchLeave(ev): every link into and out of the switch
switchLeave(M, sid) ==
    [M EXCEPT !.dead = @ \cup {e \in Edges : e[1] = sid \/ e[2] = sid}]

\* the links down, whatever the direction
Down(d) == {{e[1], e[2]} : e \in d}

LinkDelete(e) ==
    /\ Cardinality(Down(dead \cup {e})) <= MaxDown
    /\ Commit(linkDelete(Cur, e), <<"linkDelete", e>>)

LinkAdd(e) == Commit(linkAdd(Cur, e), <<"linkAdd", e>>)

SwitchLeave(s) ==
    /\ dead = {}
    /\ Commit(switchLeave(Cur, s), <<"switchLeave", s>>)

Next ==
    \/ CreateGroup
    \/ \E h \in Hosts : AddSubscriber(h)
    \/ \E h \in Hosts : RemoveSubscriber(h)
    \/ RemoveGroup
    \/ \E e \in Failable : LinkDelete(e)
    \/ \E e \in Failable : LinkAdd(e)
    \/ \E s \in Leaving : SwitchLeave(s)

Spec == Init /\ [][Next]_vars

\* a group is created and subscribers join it, over a network whose links fail
\* and recover
OrderNext ==
    \/ CreateGroup
    \/ \E h \in Hosts : AddSubscriber(h)
    \/ \E e \in Failable : LinkDelete(e)
    \/ \E e \in Failable : LinkAdd(e)

OrderSpec == Init /\ [][OrderNext]_vars

(***************************************************************************)
(* Properties of the hierarchy.                                            *)
(***************************************************************************)
\* the nodes of T that the edges of T reach from the nodes in S
RECURSIVE ReachedFrom(_, _)
ReachedFrom(T, S) ==
    LET N == S \cup {e[2] : e \in {d \in T.edges : d[1] \in S}}
    IN IF N = S THEN S ELSE ReachedFrom(T, N)

\* T is an out-arborescence rooted at T.root
Arborescence(T) ==
    /\ T.root \in T.nodes
    /\ \A e \in T.edges : e[1] \in T.nodes /\ e[2] \in T.nodes
    /\ TPred(T, T.root) = {}
    /\ \A n \in T.nodes \ {T.root} : Cardinality(TPred(T, n)) = 1
    /\ ReachedFrom(T, {T.root}) = T.nodes

\* C1: whatever operations and link events have run, the primary tree of the
\* group is an out-arborescence rooted at the switch the group was created
\* at: the root has no parent, every other node has exactly one parent and
\* is reachable from the root (so there is no cycle)
C1_PrimaryArborescence ==
    Primary \in DOMAIN trees =>
        /\ trees[Primary].root = Root
        /\ Arborescence(trees[Primary])

\* a subscriber has just been removed from a primary that keeps another one,
\* while a link is down
C1_Witness ==
    /\ Primary \in DOMAIN trees
    /\ last[1] = "remove_subscriber"
    /\ last[2] \notin trees[Primary].nodes
    /\ cmds # <<>>
    /\ err = "none"
    /\ dead # {}
    /\ trees[Primary].nodes \cap Hosts # {}

\* the backup trees attached in the hierarchy
Backups == DOMAIN trees \ {Primary}

\* C7: for every edge (u, v) of every tree T of the hierarchy, the backup
\* attached to it, if any, is a tree whose root is u, whose parent is T and
\* whose primary is the primary of T, and it is an out-arborescence
C7_BackupPointers ==
    \A t \in DOMAIN trees : \A e \in trees[t].edges :
        LET b == Append(t, e)
        IN b \in DOMAIN trees =>
              /\ trees[b].root = e[1]
              /\ trees[b].parent = {t}
              /\ trees[b].primary = trees[t].primary
              /\ Arborescence(trees[b])

\* a backup of a backup with a path of its own, left by joins and a leave
C7_Witness ==
    /\ err = "none"
    /\ last[1] = "remove_subscriber"
    /\ cmds # <<>>
    /\ \E b \in Backups : Len(b) >= 2 /\ Cardinality(trees[b].edges) >= 2

\* C8: a backup tree contains, in neither direction, the link it protects nor
\* a link protected by one of the backups above it up to the primary
C8_BackupAvoidsProtected ==
    \A b \in Backups : \A i \in 1..Len(b) :
        /\ b[i] \notin trees[b].edges
        /\ <<b[i][2], b[i][1]>> \notin trees[b].edges

\* a backup of a backup that carries the paths of two subscribers
C8_Witness ==
    /\ err = "none"
    /\ \E b \in Backups :
          /\ Len(b) >= 2
          /\ Cardinality(trees[b].nodes \cap Hosts) >= 2

C5_RegistryPointsAtBucket ==
    \A s \in Switches : \A k \in DOMAIN sw[s].FF_groups :
        \A i \in 1..Len(sw[s].FF_groups[k]) :
            LET g_id == sw[s].FF_groups[k][i][1]
                index == sw[s].FF_groups[k][i][2]
                B == sw[s].buckets
            IN /\ g_id \in DOMAIN B
               /\ index + 1 <= Len(B[g_id])
               /\ k[1] \in Range(B[g_id][index + 1].ports)
               /\ B[g_id][index + 1].tag = k[2]

\* C10: no operation aborts with an unhandled error
C10_NoAbort == err = "none"

\* the links between switches, one pair per link
Links == {e \in Edges : e[1] \in Switches /\ e[2] \in Switches /\ e[1] < e[2]}

\* the two directions of the links in D
Both(D) == D \cup {<<e[2], e[1]>> : e \in D}

\* the nodes that the edges of the network outside gone reach from S
RECURSIVE NetReached(_, _)
NetReached(gone, S) ==
    LET N == S \cup {e[2] : e \in {d \in Edges \ gone : d[1] \in S}}
    IN IF N = S THEN S ELSE NetReached(gone, N)

\* the hierarchy delivers from node u of the tree named t to v when the links
\* of D have failed: along the edge of t towards v while it is not in D, and
\* from a failed edge on through the backup attached to it
RECURSIVE Delivers(_, _, _, _)
Delivers(t, u, v, D) ==
    LET T == trees[t]
        hops == {y \in TSucc(T, u) : v \in ReachedFrom(T, {y})}
    IN IF u = v THEN TRUE
       ELSE /\ hops # {}
            /\ LET y == CHOOSE z \in hops : TRUE
                   b == Append(t, <<u, y>>)
               IN IF <<u, y>> \notin Both(D) THEN Delivers(t, y, v, D)
                  ELSE b \in DOMAIN trees /\ Delivers(b, u, v, D)

\* add_subscriber(v) has just added v to the primary
JustAdded(v) ==
    /\ last = <<"add_subscriber", v>>
    /\ err = "none"
    /\ Primary \in DOMAIN snap.trees
    /\ v \notin snap.trees[Primary].nodes
    /\ v \in trees[Primary].nodes

\* C2: once add_subscriber(v) has added v, for every set D of at most F links
\* whose failure leaves a live path from the root to v in the network, the
\* hierarchy delivers to v: by the primary edge where it is not in D and by
\* the backup attached to it, and the backups nested below, where it is
C2_DeliversUnderFailures ==
    \A v \in Hosts : JustAdded(v) =>
        \A D \in {X \in SUBSET Links : Cardinality(X) <= F} :
            v \in NetReached(dead \cup Both(D), {Root}) =>
                Delivers(Primary, Root, v, D)

\* remove_subscriber(h) has just run, directly after the add_subscriber(h)
\* that added h to the primary
AddedThenRemoved(h) ==
    /\ last = <<"remove_subscriber", h>>
    /\ snap.h = h
    /\ Primary \in DOMAIN snap.trees
    /\ h \notin snap.trees[Primary].nodes

\* C3: adding a subscriber and then removing it leaves the primary, every
\* backup tree and backup pointer and every switch's flows, FF_groups and
\* buckets as they were before the add (tag_index and group_id_index apart)
C3_AddRemoveRoundTrip ==
    \A h \in Hosts : AddedThenRemoved(h) =>
        /\ trees = snap.trees
        /\ Maps(sw) = snap.maps

\* the actions a packet of flow key meets on switch s: those of table 0 and of
\* every table a goto leads to; a table without an entry for the key drops it
RECURSIVE Pipeline(_, _, _)
Pipeline(s, key, i) ==
    IF <<key, i>> \notin DOMAIN sw[s].tables THEN <<>>
    ELSE LET e == sw[s].tables[<<key, i>>]
         IN e.acts \o (IF e.goto THEN Pipeline(s, key, i + 1) ELSE <<>>)

\* how many times the action a is in the list acts
Count(acts, a) == Cardinality({i \in DOMAIN acts : acts[i] = a})

\* the groups registered for port p of flow key on switch s
Registered(s, p, key) ==
    IF <<p, key>> \in DOMAIN sw[s].FF_groups
    THEN {sw[s].FF_groups[<<p, key>>][i][1] : i \in DOMAIN sw[s].FF_groups[<<p, key>>]}
    ELSE {}

\* C6: for every flow key recorded on a switch, the ports recorded for it are
\* those of the destinations requested and not removed since, and the action
\* lists installed across its tables output exactly once to each of them and
\* to no other port: a host-side port by one output; a switch-side port by one
\* output when no group is registered for it, and otherwise by one group
\* action for each group registered for it, whose first bucket is that port,
\* and by no output
C6_OutputsOncePerPort ==
    \A s \in Switches : \A key \in DOMAIN sw[s].flows :
        LET f == sw[s].flows[key]
            acts == Pipeline(s, key, 0)
            groups == UNION {Registered(s, p, key) : p \in f.s}
            dsts == IF key \in DOMAIN sw[s].req THEN sw[s].req[key] ELSE {}
        IN /\ dsts \subseteq Succ(s)
           /\ f.s = _get_ports(s, dsts).s
           /\ f.h = _get_ports(s, dsts).h
           /\ \A p \in f.h : Count(acts, <<"out", p>>) = 1
           /\ \A p \in f.s :
                 IF Registered(s, p, key) = {}
                 THEN Count(acts, <<"out", p>>) = 1
                 ELSE /\ Count(acts, <<"out", p>>) = 0
                      /\ \A g \in Registered(s, p, key) :
                            /\ Count(acts, <<"group", g>>) = 1
                            /\ g \in DOMAIN sw[s].buckets
                            /\ sw[s].buckets[g][1].ports = <<p>>
           /\ \A i \in DOMAIN acts :
                 \/ acts[i][1] = "pop"
                 \/ acts[i][1] = "out" /\ acts[i][2] \in f.s \cup f.h
                 \/ acts[i][1] = "group" /\ acts[i][2] \in groups

\* a flow that outputs to a host and, through a registered group, to a
\* switch, rewritten in place by the operation that ran last
C6_Witness ==
    \E s \in Switches : \E key \in DOMAIN sw[s].flows :
        /\ sw[s].flows[key].h # {}
        /\ \E p \in sw[s].flows[key].s : Registered(s, p, key) # {}
        /\ \E c \in Range(cmds) : c[1] = "MODIFY_STRICT" /\ c[2] = s /\ c[3] = key

\* the subscribers order[1], order[2], ... added one after the other to M
RECURSIVE AddAll(_, _)
AddAll(M, order) ==
    IF order = <<>> THEN M
    ELSE AddAll(add_subscriber([M EXCEPT !.err = "none", !.cmds = <<>>, !.calls = <<>>], F,
                              Head(order)),
                Tail(order))

\* the orders in which the subscribers of order can be added
Orders(order) ==
    {[i \in DOMAIN order |-> order[p[i]]] : p \in Permutations(DOMAIN order)}

\* the number of edges between the root of T and its node v
RECURSIVE Depth(_, _)
Depth(T, v) == IF v = T.root \/ TPred(T, v) = {} THEN 0 ELSE 1 + Depth(T, Pre(T, v))

\* C9 as stated: whatever the order in which the subscribers added since the
\* group was created are added, over the same network, the primary tree ends
\* with the same set of edges
C9_SameEdgesInAnyOrder ==
    joined.valid =>
        \A o \in Orders(joined.order) :
            AddAll(joined.base, o).trees[Primary].edges = trees[Primary].edges

\* C9, amended: whatever the order in which the subscribers added since the
\* group was created are added, over the same network, the primary tree ends
\* with every one of them subscribed at the same number of hops from the root
C9_SameDepthInAnyOrder ==
    joined.valid =>
        \A o \in Orders(joined.order) :
            LET T == AddAll(joined.base, o).trees[Primary]
            IN /\ T.nodes \cap Hosts = trees[Primary].nodes \cap Hosts
               /\ \A h \in T.nodes \cap Hosts : Depth(T, h) = Depth(trees[Primary], h)

\* three subscribers added, two of which end behind one edge of the primary
C9_Witness ==
    /\ joined.valid
    /\ Len(joined.order) = 3
    /\ \E o \in Orders(joined.order) :
          AddAll(joined.base, o).trees[Primary].edges # trees[Primary].edges

\* no switch holds a flow, a registered group or a bucket list
NoForwardingState(w) ==
    \A s \in Switches :
        /\ w[s].flows = <<>>
        /\ w[s].FF_groups = <<>>
        /\ w[s].buckets = <<>>

\* C11: remove_group on a group with subscribers completes, the group is gone
\* from the registry, and afterwards no switch holds a flow entry, an
\* FF_groups entry or a bucket list of it, in the primary tag or a backup tag
C11_RemoveGroupClears ==
    [][(/\ last' = <<"remove_group", None>>
        /\ Primary \in DOMAIN trees
        /\ trees[Primary].nodes \cap Hosts # {})
       => (/\ err' = "none"
           /\ Primary \notin DOMAIN trees'
           /\ NoForwardingState(sw'))]_vars

\* the edges of T on the path from its root to its node n
RECURSIVE RootPath(_, _)
RootPath(T, n) ==
    IF n = T.root \/ TPred(T, n) = {} THEN {}
    ELSE {<<Pre(T, n), n>>} \cup RootPath(T, Pre(T, n))

\* the actions a packet of flow key meets on switch s when the switches are w
RECURSIVE PipelineOf(_, _, _, _)
PipelineOf(w, s, key, i) ==
    IF <<key, i>> \notin DOMAIN w[s].tables THEN <<>>
    ELSE LET e == w[s].tables[<<key, i>>]
         IN e.acts \o (IF e.goto THEN PipelineOf(w, s, key, i + 1) ELSE <<>>)

\* with the switches w, the untagged flow of switch a outputs to its port
\* towards b, directly or as the first bucket of a group
OutputsToward(w, a, b) ==
    LET p == src_port(a, b)
        acts == PipelineOf(w, a, None, 0)
    IN /\ None \in DOMAIN w[a].flows
       /\ p \in w[a].flows[None].s \cup w[a].flows[None].h
       /\ \E i \in DOMAIN acts :
             \/ acts[i] = <<"out", p>>
             \/ /\ acts[i][1] = "group"
                /\ acts[i][2] \in DOMAIN w[a].buckets
                /\ w[a].buckets[acts[i][2]][1].ports = <<p>>

\* C12: remove_subscriber(v) takes from the primary exactly the edges, and
\* the nodes below them, that are on the root path of v and on the root path
\* of no other subscriber; every other subscriber keeps its root path, and the
\* flows along that path keep outputting towards it
C12_RemoveKeepsOthers ==
    [][\A v \in Hosts :
          (/\ last' = <<"remove_subscriber", v>>
           /\ Primary \in DOMAIN trees
           /\ v \in trees[Primary].nodes)
          => LET T == trees[Primary]
                 others == (T.nodes \cap Hosts) \ {v}
                 kept == UNION {RootPath(T, h) : h \in others}
                 gone == RootPath(T, v) \ kept
             IN /\ Primary \in DOMAIN trees'
                /\ trees'[Primary].edges = T.edges \ gone
                /\ trees'[Primary].nodes = T.nodes \ {e[2] : e \in gone}
                /\ \A h \in others : RootPath(trees'[Primary], h) = RootPath(T, h)
                /\ \A e \in kept :
                      OutputsToward(sw, e[1], e[2]) => OutputsToward(sw', e[1], e[2])
      ]_vars

\* the operation that leads to the next state changes no tree, not the tag
\* cursor, no flows, FF_groups or buckets of a switch, and sends no command
NothingChanges ==
    /\ trees' = trees
    /\ tag_index' = tag_index
    /\ Maps(sw') = Maps(sw)
    /\ cmds' = <<>>
    /\ err' = "none"

\* the machine state M is the current one, and holds no command
SameAsCurrent(M) ==
    /\ M.trees = trees
    /\ M.tag_index = tag_index
    /\ Maps(M.sw) = Maps(sw)
    /\ M.cmds = <<>>
    /\ M.err = "none"

\* C13: a request for a group that does not exist, add_subscriber of a node
\* already in the tree, remove_subscriber of a node not in the tree, and
\* remove_subscriber of the root of the tree change nothing: the trees, the
\* tag cursor and the flows, FF_groups and buckets of every switch are as
\* before, and no command is sent to a switch
C13_NoOpRequests ==
    [][/\ \A v \in Hosts :
             (/\ last' \in {<<"add_subscriber", v>>, <<"remove_subscriber", v>>}
              /\ Primary \notin DOMAIN trees) => NothingChanges
       /\ (last' = <<"remove_group", None>> /\ Primary \notin DOMAIN trees)
             => NothingChanges
       /\ \A v \in Hosts :
             (/\ last' = <<"add_subscriber", v>>
              /\ Primary \in DOMAIN trees
              /\ v \in trees[Primary].nodes) => NothingChanges
       /\ \A v \in Hosts :
             (/\ last' = <<"remove_subscriber", v>>
              /\ Primary \in DOMAIN trees
              /\ v \notin trees[Primary].nodes) => NothingChanges
       /\ Primary \in DOMAIN trees
             => /\ SameAsCurrent(remove_subscriber(Cur, F, trees[Primary].root))
                /\ SameAsCurrent(add_subscriber(Cur, F, trees[Primary].root))
      ]_vars

\* add_subscriber of a subscriber of a tree that has backups and flows has
\* just run
C13_Witness ==
    /\ \E v \in Hosts :
          /\ last = <<"add_subscriber", v>>
          /\ snap.h = v
          /\ Primary \in DOMAIN snap.trees
          /\ v \in snap.trees[Primary].nodes
    /\ Backups # {}
    /\ ~NoForwardingState(sw)

\* the nodes that paths of live edges reach from the nodes in S, where no edge
\* is in exclude and every edge is an edge of T or ends outside T
RECURSIVE AdmissibleReach(_, _, _, _)
AdmissibleReach(d, exclude, T, S) ==
    LET N == S \cup {e[2] : e \in {g \in Edges : /\ g[1] \in S
                                                 /\ g \notin d
                                                 /\ g \notin exclude
                                                 /\ (g \in T.edges \/ g[2] \notin T.nodes)}}
    IN IF N = S THEN S ELSE AdmissibleReach(d, exclude, T, N)

\* C14: when no admissible path leads from the root of the primary tree to v,
\* add_subscriber(v) changes nothing: the primary tree, the backup trees, the
\* tag cursor and the flows, FF_groups and buckets of every switch are as
\* before, v is not in the tree, and no command is sent to a switch
C14_NoPathNoChange ==
    [][\A v \in Hosts :
          (/\ last' = <<"add_subscriber", v>>
           /\ Primary \in DOMAIN trees
           /\ v \notin trees[Primary].nodes
           /\ v \notin AdmissibleReach(dead, {}, trees[Primary], {trees[Primary].root}))
          => /\ NothingChanges
             /\ sw' = sw
             /\ v \notin trees'[Primary].nodes
      ]_vars

\* add_subscriber(v) has just run on a tree with flows while no admissible
\* path led to v, and left v out
C14_Witness ==
    \E v \in Hosts :
       /\ last = <<"add_subscriber", v>>
       /\ snap.h = v
       /\ Primary \in DOMAIN snap.trees
       /\ v \notin snap.trees[Primary].nodes
       /\ v \notin AdmissibleReach(dead, {}, snap.trees[Primary],
                                   {snap.trees[Primary].root})
       /\ snap.trees[Primary].edges # {}
       /\ v \notin trees[Primary].nodes

\* C15: linkDelete and switchLeave only mark edges of the network not live: no
\* tree, no backup tree, not the tag cursor, no flow, FF_groups entry or bucket
\* list changes and no command is sent to a switch; linkDelete marks its edge,
\* switchLeave marks every edge into and out of the switch
C15_LinkEventsOnlyMark ==
    [][/\ \A e \in Edges :
             last' = <<"linkDelete", e>>
             => /\ NothingChanges
                /\ sw' = sw
                /\ dead' = dead \cup {e}
       /\ \A s \in Switches :
             last' = <<"switchLeave", s>>
             => /\ NothingChanges
                /\ sw' = sw
                /\ dead' = dead \cup {e \in Edges : s \in {e[1], e[2]}}
                /\ \A n \in Nodes :
                      /\ n \in Succ(s) => <<s, n>> \in dead'
                      /\ s \in Succ(n) => <<n, s>> \in dead'
      ]_vars

\* switchLeave has just run for a switch that a backup tree with flows runs
\* through
C15_Witness ==
    /\ last[1] = "switchLeave"
    /\ \E b \in Backups : last[2] \in trees[b].nodes
    /\ \E e \in Edges : e[2] = last[2] /\ e \in dead
    /\ last[2] \in Switches /\ sw[last[2]].flows # <<>>

\* in the action list acts a pop of the tag comes before the output to port p
PopsBefore(acts, p) ==
    \E i, j \in DOMAIN acts :
       /\ i < j
       /\ acts[i] = <<"pop", 0>>
       /\ acts[j] = <<"out", p>>

\* with the switches w, switch u holds a group whose bucket 0 is (p, tag, live)
\* and whose bucket 1 is (q, btag, live), port p of the flow of tag is
\* registered to it at index 0 and port q of the flow of btag at index 1, and
\* the flow of tag outputs to the group and not to port p
FirstBackupInstalled(w, u, p, tag, q, btag) ==
    LET FF == w[u].FF_groups
    IN /\ <<p, tag>> \in DOMAIN FF
       /\ Len(FF[<<p, tag>>]) = 1
       /\ FF[<<p, tag>>][1][2] = 0
       /\ LET g == FF[<<p, tag>>][1][1]
              acts == PipelineOf(w, u, tag, 0)
          IN /\ g \in DOMAIN w[u].buckets
             /\ g \in w[u].groups
             /\ Len(w[u].buckets[g]) >= 2
             /\ w[u].buckets[g][1] = Bucket(p, tag, FALSE)
             /\ w[u].buckets[g][2] = Bucket(q, btag, FALSE)
             /\ <<q, btag>> \in DOMAIN FF
             /\ FF[<<q, btag>>] = << <<g, 1>> >>
             /\ \E i \in DOMAIN acts : acts[i] = <<"group", g>>
             /\ \A i \in DOMAIN acts : acts[i] # <<"out", p>>

\* C16: with F >= 1, when add_subscriber installs the first backup of a primary
\* edge (u, v), and switch u had no fast-failover group for its port to v,
\* switch u afterwards holds a group whose bucket 0 is (port to v, tag of the
\* primary, live) and whose bucket 1 is (port to the next hop of the backup,
\* tag of the backup, live); the flow at u outputs to the group and no longer
\* to the port, the backup is registered at bucket index 1, and the switch
\* that hands the backup flow to the subscriber pops the tag before the output
C16_FirstBackup ==
    [][(last'[1] = "add_subscriber" /\ F >= 1)
       => \A b \in DOMAIN trees' \ DOMAIN trees :
             LET e == b[1]
                 u == e[1]
                 h == last'[2]
             IN (/\ Len(b) = 1
                 /\ <<src_port(u, e[2]), None>> \notin DOMAIN sw[u].FF_groups)
                => /\ \E z \in TSucc(trees'[b], u) :
                         FirstBackupInstalled(sw', u, src_port(u, e[2]), None,
                                              src_port(u, z), trees'[b].tag)
                   /\ h \in trees'[b].nodes
                   /\ LET a == Pre(trees'[b], h)
                      IN PopsBefore(PipelineOf(sw', a, trees'[b].tag, 0),
                                    src_port(a, h))
      ]_vars

\* add_subscriber has just installed the first backup of the edge from the
\* root, and the backup runs through a switch before it reaches the subscriber
C16_Witness ==
    \E h \in Hosts : \E e \in Edges :
       LET b == Append(Primary, e)
       IN /\ last = <<"add_subscriber", h>>
          /\ snap.h = h
          /\ F >= 1
          /\ err = "none"
          /\ Primary \in DOMAIN snap.trees
          /\ b \notin DOMAIN snap.trees
          /\ b \in DOMAIN trees
          /\ e[1] = Root
          /\ <<src_port(Root, e[2]), None>> \notin DOMAIN snap.maps[Root].FF_groups
          /\ Cardinality(trees[b].edges) >= 3
          /\ \E z \in TSucc(trees[b], Root) :
                FirstBackupInstalled(sw, Root, src_port(Root, e[2]), None,
                                     src_port(Root, z), trees[b].tag)

(***************************************************************************)
(* DST.join.  Its weight refuses the edges SPT.join refuses and prices     *)
(* every other edge 1.  nx.multi_source_dijkstra starts at every node of T *)
(* at distance 0 and returns, in paths[v], a path of least length from one *)
(* of them to v; which one of several it returns depends on the order of   *)
(* the network's adjacency, so DST_join is the set of the results that the *)
(* shortest paths allow.                                                   *)
(***************************************************************************)
\* DST.join that starts the search at the root of T only
sources_root_only(T) == {T.root}

\* sources = set(T.nodes()), line 27
sources(T) == T.nodes

\* lines 35-43: the nodes of T from the root down to the predecessor of cur
RECURSIVE pre(_, _)
pre(T, cur) ==
    IF cur = T.root \/ TPred(T, cur) = {} THEN <<>>
    ELSE Append(pre(T, Pre(T, cur)), Pre(T, cur))

\* DST.join(network, exclude, T, v)
DST_join(d, exclude, T, v) ==
    LET Results(P) ==
            IF P = {} THEN {<<>>}
            ELSE {pre(T, p[1]) \o p : p \in {q \in P : \A r \in P : Len(q) <= Len(r)}}
    IN IF v \in T.nodes THEN {<<>>}
       ELSE Results(UNION {PathsFrom(d, exclude, T, <<w>>, v) : w \in sources(T)})

(***************************************************************************)
(* The join functions on their own: a builder with F = 0 whose join is     *)
(* SPT.join or DST.join grows one tree by joins, each with an exclude set  *)
(* as _process_request passes (empty, or the two directions of a link that *)
(* is not in the tree), while links fail and recover.  snap holds the last *)
(* call of join and its result.                                            *)
(***************************************************************************)
Joins == {"SPT_join", "DST_join"}

\* the exclude arguments: [] and L = {(x, y), (y, x)}
Excludes == {{}} \cup {Both({e}) : e \in Links}

\* what join k may return
JoinResults(k, d, exclude, T, v) ==
    IF k = "SPT_join" THEN {join(d, exclude, T, v)}
    ELSE DST_join(d, exclude, T, v)

JoinInit ==
    /\ F = 0
    /\ trees = With(<<>>, Primary, Tree(Root, {}, Primary, None, None))
    /\ tag_index = 1
    /\ sw = [s \in Switches |-> NoSwitchState]
    /\ dead = {}
    /\ cmds = <<>>
    /\ err = "none"
    /\ ops = 0
    /\ last = <<"init", None>>
    /\ snap \in {[h |-> None, join |-> k] : k \in Joins}
    /\ joined = NoJoined
    /\ calls = <<>>

\* path = self.join(network, exclude, T, v), then _add_path(T, path)
Join(v, exclude) ==
    /\ ops < MaxOps
    /\ exclude \cap trees[Primary].edges = {}
    /\ \E path \in JoinResults(snap.join, dead, exclude, trees[Primary], v) :
          LET M == _add_path(Cur, Primary, path, Len(path) - 1)
          IN /\ trees' = M.trees
             /\ sw' = M.sw
             /\ cmds' = M.cmds
             /\ err' = M.err
             /\ calls' = M.calls
             /\ snap' = [h |-> v, join |-> snap.join, T |-> trees[Primary],
                         exclude |-> exclude, dead |-> dead, path |-> path]
    /\ ops' = ops + 1
    /\ last' = <<"join", v>>
    /\ UNCHANGED <<F, tag_index, dead, joined>>

JoinLinkDelete(e) ==
    /\ ops < MaxOps
    /\ e \notin dead
    /\ Cardinality(Down(dead \cup {e})) <= MaxDown
    /\ dead' = linkDelete(Cur, e).dead
    /\ ops' = ops + 1
    /\ last' = <<"linkDelete", e>>
    /\ cmds' = <<>>
    /\ calls' = <<>>
    /\ UNCHANGED <<F, trees, tag_index, sw, err, snap, joined>>

JoinLinkAdd(e) ==
    /\ ops < MaxOps
    /\ e \in dead
    /\ dead' = linkAdd(Cur, e).dead
    /\ ops' = ops + 1
    /\ last' = <<"linkAdd", e>>
    /\ cmds' = <<>>
    /\ calls' = <<>>
    /\ UNCHANGED <<F, trees, tag_index, sw, err, snap, joined>>

JoinNext ==
    \/ \E v \in Hosts : \E exclude \in Excludes : Join(v, exclude)
    \/ \E e \in Failable : JoinLinkDelete(e)
    \/ \E e \in Failable : JoinLinkAdd(e)

JoinSpec == JoinInit /\ [][JoinNext]_vars

\* join has been called
Called == snap.h # None

\* the edge (x, y) is live, not in exclude, and an edge of T or into a node
\* outside T
EdgeAdmissible(d, exclude, T, x, y) ==
    /\ y \in Succ(x)
    /\ <<x, y>> \notin d
    /\ <<x, y>> \notin exclude
    /\ (<<x, y>> \in T.edges \/ y \notin T.nodes)

\* C17: join, SPT or DST, returns the empty sequence when v is in T and when
\* no admissible path leads to v (from the root for SPT, from any node of T for
\* DST); any other result ends at v and each of its edges is live, is not in
\* exclude, and is an edge of T or ends at a node outside T
C17_JoinAdmissible ==
    Called =>
      LET T == snap.T
          p == snap.path
          from == IF snap.join = "SPT_join" THEN {T.root} ELSE T.nodes
      IN /\ snap.h \in T.nodes => p = <<>>
         /\ snap.h \notin AdmissibleReach(snap.dead, snap.exclude, T, from) => p = <<>>
         /\ p # <<>> =>
               /\ p[Len(p)] = snap.h
               /\ \A i \in 1..(Len(p) - 1) :
                     EdgeAdmissible(snap.dead, snap.exclude, T, p[i], p[i + 1])

\* C18, as the specification words it: the first element of a non-empty result
\* of join is in T and every later element is outside T
C18_TouchesTreeOnce ==
    (Called /\ snap.path # <<>>) =>
       /\ snap.path[1] \in snap.T.nodes
       /\ \A i \in 2..Len(snap.path) : snap.path[i] \notin snap.T.nodes

\* C18: a non-empty result of join starts at the root of T, follows edges of T
\* down to one node w of T, and every element after w is outside T: the path
\* leaves the tree at exactly one node
C18_LeavesTreeOnce ==
    (Called /\ snap.path # <<>>) =>
       LET T == snap.T
           p == snap.path
       IN /\ p[1] = T.root
          /\ \E k \in 1..(Len(p) - 1) :
                /\ \A i \in 1..k : p[i] \in T.nodes
                /\ \A i \in 1..(k - 1) : <<p[i], p[i + 1]>> \in T.edges
                /\ \A i \in (k + 1)..Len(p) : p[i] \notin T.nodes

\* join has returned a path that runs over two edges of T and then over two
\* edges outside it
C18_Witness ==
    /\ Called
    /\ Len(snap.path) >= 5
    /\ snap.path[3] \in snap.T.nodes
    /\ snap.path[Len(snap.path) - 1] \notin snap.T.nodes

\* how many edges of the path p are edges of T
TreeEdgesOn(T, p) ==
    Cardinality({i \in 1..(Len(p) - 1) : <<p[i], p[i + 1]>> \in T.edges})

\* C19: the result of SPT.join is an admissible path from the root to v of the
\* least number of hops, and among those of the largest number of edges of T;
\* with the reduction 1/(|E(T)|+1) for an edge of T no admissible path is
\* cheaper than one of fewer hops
C19_SPTMinHops ==
    (Called /\ snap.join = "SPT_join" /\ snap.h \notin snap.T.nodes) =>
       LET T == snap.T
           p == snap.path
           P == PathsFrom(snap.dead, snap.exclude, T, <<T.root>>, snap.h)
       IN /\ P # {} => p \in P
          /\ p # <<>> =>
                \A q \in P :
                   /\ Len(p) <= Len(q)
                   /\ Len(q) = Len(p) => TreeEdgesOn(T, q) <= TreeEdgesOn(T, p)
          /\ \A q, r \in P : Len(q) < Len(r) => PathWeight(T, q) < PathWeight(T, r)

\* SPT.join has returned a path over an edge of T where another admissible
\* path of as many hops has fewer edges of T
C19_Witness ==
    /\ Called
    /\ snap.join = "SPT_join"
    /\ snap.path # <<>>
    /\ LET T == snap.T
           p == snap.path
           P == PathsFrom(snap.dead, snap.exclude, T, <<T.root>>, snap.h)
       IN /\ \E q \in P : Len(q) = Len(p) /\ TreeEdgesOn(T, q) < TreeEdgesOn(T, p)
          /\ TreeEdgesOn(T, p) >= 1

\* the least number of admissible edges from a node of S to v, after n steps
\* of the search; -1 when there is no path
RECURSIVE Hops(_, _, _, _, _, _)
Hops(d, exclude, T, S, v, n) ==
    LET N == S \cup {y \in Nodes : \E x \in S : EdgeAdmissible(d, exclude, T, x, y)}
    IN IF v \in S THEN n
       ELSE IF N = S THEN -1
       ELSE Hops(d, exclude, T, N, v, n + 1)

\* the index of the last element of p that is in T
Entry(T, p) ==
    CHOOSE k \in DOMAIN p :
       /\ p[k] \in T.nodes
       /\ \A j \in (k + 1)..Len(p) : p[j] \notin T.nodes

\* C20: the result of DST.join starts at the root of T and follows the edges of
\* T down to the entry node w; the part from w to v is an admissible path
\* outside T of the least number of hops that any admissible path from a node
\* of T to v has; the result is empty only when v is in T or no node of T
\* reaches v
C20_DSTClosest ==
    (Called /\ snap.join = "DST_join" /\ snap.h \notin snap.T.nodes) =>
       LET T == snap.T
           p == snap.path
           least == Hops(snap.dead, snap.exclude, T, T.nodes, snap.h, 0)
       IN /\ least >= 0 => p # <<>>
          /\ p # <<>> =>
                /\ p[1] = T.root
                /\ p[Len(p)] = snap.h
                /\ LET k == Entry(T, p)
                   IN /\ \A i \in 1..(k - 1) : <<p[i], p[i + 1]>> \in T.edges
                      /\ \A i \in k..(Len(p) - 1) :
                            EdgeAdmissible(snap.dead, snap.exclude, T, p[i], p[i + 1])
                      /\ Len(p) - k = least

\* DST.join has attached v to a node of T that is nearer to v than the root is
C20_Witness ==
    /\ Called
    /\ snap.join = "DST_join"
    /\ snap.path # <<>>
    /\ snap.h \notin snap.T.nodes
    /\ Entry(snap.T, snap.path) >= 3
    /\ LET far == Hops(snap.dead, snap.exclude, snap.T, {snap.T.root}, snap.h, 0)
       IN far > Len(snap.path) - Entry(snap.T, snap.path)

(***************************************************************************)
(* The packet handlers.  The controller keeps, for the group, the set of   *)
(* the sources it has seen (self.groups[group]); it adds a source in the   *)
(* statement after builder.create_group and never removes one, and it      *)
(* never calls builder.remove_group, so under the handlers alone the set   *)
(* holds the source exactly when the builder holds its primary tree.  IP   *)
(* addresses are numbers: a host's address is its node, Source is the      *)
(* address of the group's source, OtherSource one the controller has not   *)
(* seen.                                                                   *)
(***************************************************************************)
Source == 9
OtherSource == 10

\* the bound on the packets that change the state
MaxPackets == 3

\* the switches that report data packets of the source
Ingress == {1, 2}

\* the key under which the tables of a switch hold the entry of lines 909-917
DropKey == 0 - 1

\* record.type_ of an IGMPv3 report
CHANGE_TO_INCLUDE_MODE == "CHANGE_TO_INCLUDE_MODE"
CHANGE_TO_EXCLUDE_MODE == "CHANGE_TO_EXCLUDE_MODE"
MODE_IS_INCLUDE == "MODE_IS_INCLUDE"
RecordTypes == {CHANGE_TO_INCLUDE_MODE, CHANGE_TO_EXCLUDE_MODE, MODE_IS_INCLUDE}

\* record.srcs of the reports
RecordSrcs == {{Source}, {OtherSource}}

\* self.groups[group], empty when the group is not in self.groups
groups(M) == IF Primary \in DOMAIN M.trees THEN {Source} ELSE {}

\* processIPMulticast without the test of line 903
processIPMulticast_every_packet(M, dp) ==
    [Send(create_group(M, dp), <<"ADD", dp, DropKey, 0>>) EXCEPT
        !.sw[dp].tables = With(@, <<DropKey, 0>>, [acts |-> <<>>, goto |-> FALSE])]

\* processIPMulticast(dp, msg, pkt) for a data packet of the source: lines
\* 898-917
processIPMulticast(M, dp) ==
    IF Source \in groups(M) THEN M
    ELSE LET Drop(M1) ==
                 [Send(M1, <<"ADD", dp, DropKey, 0>>) EXCEPT
                     !.sw[dp].tables = With(@, <<DropKey, 0>>,
                                            [acts |-> <<>>, goto |-> FALSE])]
         IN Drop(create_group(M, dp))

\* processIGMP that does not leave out the address of the subscriber
RECURSIVE ChangeRecord(_, _, _, _, _, _)
ChangeRecord(M, f, eth_src, type, srcs, todo) ==
    IF M.err # "none" \/ todo = <<>> THEN M
    ELSE LET src_ip == Head(todo)
             add == (type = CHANGE_TO_INCLUDE_MODE) = (src_ip \in srcs)
             Rest(M1) == ChangeRecord(M1, f, eth_src, type, srcs, Tail(todo))
         IN Rest(IF add THEN add_subscriber(M, f, eth_src)
                 ELSE remove_subscriber(M, f, eth_src))

processIGMP_no_filter(M, f, eth_src, ip_src, type, srcs) ==
    IF groups(M) = {} THEN M
    ELSE IF type \notin {CHANGE_TO_INCLUDE_MODE, CHANGE_TO_EXCLUDE_MODE} THEN M
    ELSE ChangeRecord(M, f, eth_src, type, srcs, SetToSeq(groups(M)))

\* processIGMP(eth_src, ip_src, igmp_msg) for a report with one record for the
\* group: lines 921-947; ChangeRecord is the loop over the sources
processIGMP(M, f, eth_src, ip_src, type, srcs) ==
    IF groups(M) = {} THEN M
    ELSE IF type \notin {CHANGE_TO_INCLUDE_MODE, CHANGE_TO_EXCLUDE_MODE} THEN M
    ELSE ChangeRecord(M, f, eth_src, type, srcs, SetToSeq(groups(M) \ {ip_src}))

\* packet_in_handler: a data packet of the source reported by switch dp
DataPacket(dp) ==
    /\ ops < MaxPackets
    /\ Commit(processIPMulticast(Cur, dp), <<"data_packet", dp>>)

\* packet_in_handler: an IGMPv3 report of host h with source address ip_src
Report(h, ip_src, type, srcs) ==
    /\ ops < MaxPackets
    /\ Commit(processIGMP(Cur, F, h, ip_src, type, srcs),
              <<"igmp", h, ip_src, type, srcs>>)

PacketLinkDelete(e) == ops < MaxPackets /\ LinkDelete(e)

PacketLinkAdd(e) == ops < MaxPackets /\ LinkAdd(e)

PacketNext ==
    \/ \E dp \in Ingress : DataPacket(dp)
    \/ \E h \in Hosts : \E ip_src \in {h, Source} :
          \E type \in RecordTypes : \E srcs \in RecordSrcs :
             Report(h, ip_src, type, srcs)
    \/ \E e \in Failable : PacketLinkDelete(e)
    \/ \E e \in Failable : PacketLinkAdd(e)

PacketSpec == Init /\ [][PacketNext]_vars

\* the next state is the one that M describes
StepTo(M) ==
    M = [trees |-> trees', tag_index |-> tag_index', sw |-> sw', dead |-> dead',
         cmds |-> cmds', err |-> err', calls |-> calls']

\* C21: a change-to-include report of a subscriber for a group the controller
\* knows calls, for the known source when it is not the subscriber's own
\* address, add_subscriber if the record lists it and remove_subscriber if
\* not; a change-to-exclude report does the inverse; a report for a group the
\* controller does not know, and one whose address is the source's own, calls
\* neither
C21_ReportDispatch ==
    [][last'[1] = "igmp"
       => LET h == last'[2]
              ip_src == last'[3]
              type == last'[4]
              listed == Source \in last'[5]
          IN IF \/ Primary \notin DOMAIN trees
                \/ ip_src = Source
                \/ type \notin {CHANGE_TO_INCLUDE_MODE, CHANGE_TO_EXCLUDE_MODE}
             THEN StepTo(Cur)
             ELSE IF (type = CHANGE_TO_INCLUDE_MODE) = listed
                  THEN StepTo(add_subscriber(Cur, F, h))
                  ELSE StepTo(remove_subscriber(Cur, F, h))
      ]_vars

\* a change-to-exclude report that lists another address than the source has
\* just put its sender into a tree that held another subscriber
C21_Witness ==
    /\ last[1] = "igmp"
    /\ last[4] = CHANGE_TO_EXCLUDE_MODE
    /\ last[5] = {OtherSource}
    /\ Primary \in DOMAIN trees
    /\ last[2] \in trees[Primary].nodes
    /\ cmds # <<>>
    /\ (trees[Primary].nodes \cap Hosts) # {last[2]}

\* the trees of the hierarchy that have no parent
Primaries(tr) == {t \in DOMAIN tr : tr[t].parent = {}}

\* C22: the first data packet of the source creates one primary tree, rooted
\* at the switch that reported the packet and with no edge, and sends that
\* switch the drop entry, once; every later data packet, from any switch,
\* changes nothing and sends nothing, and so does a create_group call for any
\* switch; the hierarchy never holds more than one primary tree
C22_OnePrimary ==
    [][/\ last'[1] = "data_packet"
          => LET dp == last'[2]
             IN IF Primary \notin DOMAIN trees
                THEN /\ DOMAIN trees' = {Primary}
                     /\ trees'[Primary] = Tree(dp, {}, Primary, None, None)
                     /\ tag_index' = 1
                     /\ cmds' = << <<"ADD", dp, DropKey, 0>> >>
                     /\ <<DropKey, 0>> \in DOMAIN sw'[dp].tables
                     /\ Maps(sw') = Maps(sw)
                     /\ \A s \in Switches \ {dp} : sw'[s] = sw[s]
                ELSE NothingChanges /\ sw' = sw
       /\ (last'[1] # "data_packet" \/ Primary \in DOMAIN trees)
             => \A i \in DOMAIN cmds' : cmds'[i][3] # DropKey
       /\ Primary \in DOMAIN trees => \A s \in Switches : create_group(Cur, s) = Cur
       /\ Cardinality(Primaries(trees')) <= 1
       /\ trees' # <<>> => Primaries(trees') = {Primary}
      ]_vars

\* a data packet has just come from a switch that is not the root of the
\* tree, which has subscribers and backups
C22_Witness ==
    /\ last[1] = "data_packet"
    /\ Primary \in DOMAIN trees
    /\ trees[Primary].root # last[2]
    /\ trees[Primary].nodes \cap Hosts # {}
    /\ Backups # {}
    /\ cmds = <<>>

\* the calls of kind op among the calls of the operation
CallsOf(op) == {i \in DOMAIN calls : calls[i].op = op}

\* the protection level of the tree a call works on
CallLevel(c) == Len(c.tree)

\* the entry for the protected output of an add_backup call was installed at
\* the switch when the call was made
ProtectedInstalled(c) ==
    LET port == src_port(c.switch, c.dst)
        key == c.tag_origin
        flows == c.before.flows
    IN \/ key \in DOMAIN flows /\ port \in flows[key].s \cup flows[key].h
       \/ <<port, key>> \in DOMAIN c.before.FF_groups

\* C23: during one add_subscriber the flows of the new primary edges are
\* installed from the subscriber's end towards the root, all of them before
\* any add_backup; the calls for the backups come in non-decreasing protection
\* level; and when add_backup is called at a switch for a protected output, the
\* entry of that key that outputs to the port, or the bucket registered for
\* it, is already installed there
C23_CallOrder ==
    last[1] = "add_subscriber" =>
        /\ \A i \in CallsOf("add_flow") : \A j \in CallsOf("add_backup") :
              calls[i].tree = Primary => i < j
        /\ \A i \in CallsOf("add_flow") : \A j \in CallsOf("add_flow") :
              /\ calls[i].tree = Primary /\ calls[j].tree = Primary /\ j = i + 1
                    => calls[j].dst = calls[i].switch
              /\ calls[i].tree = Primary /\ i = 1 => calls[i].dst = last[2]
              /\ calls[i].tree = Primary => i <= j \/ calls[j].tree = Primary
        /\ \A i \in DOMAIN calls : \A j \in DOMAIN calls :
              /\ i < j
              /\ calls[i].op \in {"add_flow", "add_backup"}
              /\ calls[j].op \in {"add_flow", "add_backup"}
              /\ calls[i].tree # Primary /\ calls[j].tree # Primary
              => CallLevel(calls[i]) <= CallLevel(calls[j])
        /\ \A j \in CallsOf("add_backup") : ProtectedInstalled(calls[j])

\* the tag the allocation after the one that returned tag returns
NextTag(tag) == IF tag + 1 > max_vid THEN 1 ELSE tag + 1

\* the first subscriber of the group
FirstSubscriber == 6

\* the machine state after the group was created with root Root and
\* FirstSubscriber was added with protection level f
Subscribed(f) ==
    add_subscriber(create_group([trees |-> <<>>, tag_index |-> 1,
                                 sw |-> [s \in Switches |-> NoSwitchState], dead |-> {},
                                 cmds |-> <<>>, err |-> "none", calls |-> <<>>], Root),
                   f, FirstSubscriber)

\* the group exists and has its first subscriber
ReleaseInit ==
    /\ F \in 1..MaxF
    /\ trees = Subscribed(F).trees
    /\ tag_index = Subscribed(F).tag_index
    /\ sw = Subscribed(F).sw
    /\ dead = {}
    /\ cmds = Subscribed(F).cmds
    /\ err = "none"
    /\ calls = Subscribed(F).calls
    /\ ops = 0
    /\ last = <<"add_subscriber", FirstSubscriber>>
    /\ snap = NoSnap
    /\ joined = NoJoined

\* joins and leaves of the subscribers while links fail and recover
ReleaseNext ==
    \/ \E h \in Hosts : AddSubscriber(h)
    \/ \E h \in Hosts : RemoveSubscriber(h)
    \/ \E e \in Failable : LinkDelete(e)
    \/ \E e \in Failable : LinkAdd(e)

ReleaseSpec == ReleaseInit /\ [][ReleaseNext]_vars

\* C24: whenever the builder releases the tag of a backup tree, the tree is
\* the backup allocated last under its primary: the cursor stands right after
\* the tree's tag, so that the release restores the tag
C24_UndoesLastAllocated ==
    \A i \in CallsOf("_undo_tree") : calls[i].tag_index = NextTag(calls[i].tag)

\* the subscriber that joins and leaves before the behaviours of WrapSpec
RoundSubscriber == 8

\* the machine state after create_group with root Root
Created ==
    create_group([trees |-> <<>>, tag_index |-> 1,
                  sw |-> [s \in Switches |-> NoSwitchState], dead |-> {},
                  cmds |-> <<>>, err |-> "none", calls |-> <<>>], Root)

\* add_subscriber and then remove_subscriber of RoundSubscriber, with
\* protection level f
Round(M, f) ==
    [remove_subscriber([add_subscriber(M, f, RoundSubscriber) EXCEPT !.cmds = <<>>,
                                                                     !.calls = <<>>],
                       f, RoundSubscriber)
       EXCEPT !.cmds = <<>>, !.calls = <<>>]

\* the machine state n rounds after M: a round moves the cursor by the tags
\* it keeps allocated and the group id of the root switch by one, and leaves
\* the rest as it was
Rounds(M, f, n) ==
    [M EXCEPT !.tag_index = @ + n * (Round(M, f).tag_index - M.tag_index),
              !.sw[Root].group_id_index = @ + n]

\* the number of rounds that bring the cursor of Created next to max_vid
WrapRounds(f) == (max_vid - 2) \div (Round(Created, f).tag_index - 1)

\* the protection levels of the behaviours that cross the end of the tag range
MaxWrapF == 2

\* the group exists, RoundSubscriber has joined and left WrapRounds(F) times
WrapInit ==
    /\ F \in 1..MaxWrapF
    /\ trees = Created.trees
    /\ tag_index = Rounds(Created, F, WrapRounds(F)).tag_index
    /\ sw = Rounds(Created, F, WrapRounds(F)).sw
    /\ dead = {}
    /\ cmds = <<>>
    /\ err = "none"
    /\ calls = <<>>
    /\ ops = 0
    /\ last = <<"remove_subscriber", RoundSubscriber>>
    /\ snap = NoSnap
    /\ joined = NoJoined

\* joins and leaves while links fail and recover, with the cursor at the end
\* of the tag range
WrapSpec == WrapInit /\ [][ReleaseNext]_vars

\* the cursor and the number of commands sent when call k of the operation
\* was made; at its end for k past the last call
CursorAt(k) == IF k <= Len(calls) THEN calls[k].tag_index ELSE tag_index
SentAt(k) == IF k <= Len(calls) THEN calls[k].sent ELSE Len(cmds)

\* the cursor one allocation before tag
PrevTag(tag) == IF tag - 1 < 1 THEN max_vid ELSE tag - 1

\* C25: when the backup join for an edge finds no path during add_subscriber
\* and the backup tree of the edge has no edges, the tree is detached and the
\* cursor moves back by one, from 1 to max_vid; a backup tree that has edges
\* stays attached and the cursor stays; no command is sent for the failed
\* backup
C25_FailedBackupJoin ==
    last[1] = "add_subscriber" =>
        \A i \in CallsOf("log") :
            IF calls[i].empty
            THEN /\ i + 1 \in CallsOf("_undo_tree")
                 /\ calls[i + 1].tree = calls[i].tree
                 /\ calls[i + 1].tag_index = calls[i].tag_index
                 /\ CursorAt(i + 2) = PrevTag(calls[i].tag_index)
                 /\ SentAt(i + 2) = calls[i].sent
                 /\ calls[i].tree \notin DOMAIN trees
                 /\ i > 1 /\ calls[i - 1].op = "_create_tree"
                       => calls[i - 1].sent = calls[i].sent
            ELSE /\ i + 1 \notin CallsOf("_undo_tree")
                 /\ CursorAt(i + 1) = calls[i].tag_index
                 /\ SentAt(i + 1) = calls[i].sent
                 /\ calls[i].tree \in DOMAIN trees
                 /\ trees[calls[i].tree].edges # {}

\* an add_subscriber with a failed backup join that moved the cursor from 1
\* back to max_vid, and one for a backup tree that has edges
C25_Witness ==
    /\ last[1] = "add_subscriber"
    /\ \E i \in CallsOf("log") :
          calls[i].empty /\ calls[i].tag_index = 1 /\ CursorAt(i + 2) = max_vid
    /\ \E i \in CallsOf("log") : ~calls[i].empty

\* C26: on every switch every fast-failover group has at most F + 1 buckets,
\* the drop-marked ones included
C26_BucketBound ==
    \A s \in Switches : \A g_id \in DOMAIN sw[s].buckets :
        Len(sw[s].buckets[g_id]) <= F + 1

\* a group of F + 1 buckets whose first is drop-marked, with F at least 2
C26_Witness ==
    /\ F >= 2
    /\ \E s \in Switches : \E g_id \in DOMAIN sw[s].buckets :
          /\ Len(sw[s].buckets[g_id]) = F + 1
          /\ sw[s].buckets[g_id][1].drop

\* C27: a backup tree is never nested deeper than F below its primary, the
\* trees an operation creates and releases included; with F = 0 add_subscriber
\* allocates no backup tree, takes no tag, creates no fast-failover group and
\* installs only untagged flows, at the switches of the primary path
C27_DepthBound ==
    /\ \A t \in DOMAIN trees : Len(t) <= F
    /\ \A i \in DOMAIN calls : CallLevel(calls[i]) <= F
    /\ F = 0 =>
          /\ tag_index = 1
          /\ \A s \in Switches :
                /\ sw[s].FF_groups = <<>>
                /\ sw[s].buckets = <<>>
                /\ sw[s].group_id_index = 1
                /\ sw[s].groups = {}
                /\ DOMAIN sw[s].flows \subseteq {None}
          /\ last[1] = "add_subscriber" =>
                /\ \A i \in DOMAIN calls : calls[i].op = "add_flow"
                /\ \A i \in DOMAIN cmds :
                      /\ cmds[i][1] \in {"ADD", "MODIFY_STRICT"}
                      /\ cmds[i][3] = None
                      /\ \E e \in trees[Primary].edges : e[1] = cmds[i][2]

\* add_subscriber with F = 0 that installed the flows of a path of three edges
C27_Witness ==
    /\ F = 0
    /\ last[1] = "add_subscriber"
    /\ err = "none"
    /\ Len(calls) = 3
    /\ Len(cmds) >= 3
    /\ last[2] \in trees[Primary].nodes

\* no tree is created or released between the calls i and j of the operation
NoneBetween(i, j) ==
    \A k \in (i + 1)..(j - 1) : calls[k].op \notin {"_create_tree", "_undo_tree"}

\* C28: the primary tree has no tag; the tag of every backup tree and every
\* value of the cursor lie in 1..max_vid; an allocation returns the cursor and
\* moves it to the next tag, to 1 after max_vid, so that allocations that
\* follow one another return consecutive tags
C28_TagRange ==
    /\ Primary \in DOMAIN trees => trees[Primary].tag = None
    /\ \A t \in Backups : trees[t].tag \in 1..max_vid
    /\ tag_index \in 1..max_vid
    /\ \A i \in DOMAIN calls : calls[i].tag_index \in 1..max_vid
    /\ \A i \in CallsOf("_create_tree") :
          /\ CursorAt(i + 1) = NextTag(calls[i].tag_index)
          /\ calls[i].tag_index = max_vid => CursorAt(i + 1) = 1
          /\ calls[i].tag_index < max_vid => CursorAt(i + 1) = calls[i].tag_index + 1
          /\ calls[i].tree \in DOMAIN trees =>
                trees[calls[i].tree].tag = calls[i].tag_index
          /\ i + 2 \in CallsOf("_undo_tree") /\ calls[i + 2].tree = calls[i].tree =>
                calls[i + 2].tag = calls[i].tag_index
          /\ \A j \in CallsOf("_create_tree") :
                i < j /\ NoneBetween(i, j) =>
                    calls[j].tag_index = NextTag(calls[i].tag_index)

\* an add_subscriber whose allocations returned max_vid and then 1, for two
\* backup trees that stay attached
C28_Witness ==
    /\ last[1] = "add_subscriber"
    /\ \E i \in CallsOf("_create_tree") : \E j \in CallsOf("_create_tree") :
          /\ i < j /\ NoneBetween(i, j)
          /\ calls[i].tag_index = max_vid
          /\ calls[j].tag_index = 1
          /\ calls[i].tree \in DOMAIN trees
          /\ calls[j].tree \in DOMAIN trees
          /\ trees[calls[i].tree].tag = max_vid
          /\ trees[calls[j].tree].tag = 1

\* g_key and b_g_key of the add_backup call c
ProtectedKey(c) == <<src_port(c.switch, c.dst), c.tag_origin>>
BackupKey(c) == <<src_port(c.switch, c.backup_dst), c.tag>>

\* groups[0] of the add_backup call c: the base group and the protected level
BaseOf(c) == c.before.FF_groups[ProtectedKey(c)][1]

\* the add_backup call c installs a backup not yet registered for a
\* protected output whose base group has a bucket after the protected level
NextBucketTaken(c) ==
    /\ BackupKey(c) \notin DOMAIN c.before.FF_groups
    /\ ProtectedKey(c) \in DOMAIN c.before.FF_groups
    /\ BaseOf(c)[1] \in DOMAIN c.before.buckets
    /\ Len(c.before.buckets[BaseOf(c)[1]]) > BaseOf(c)[2] + 1

\* C29: add_backup with needs_backup false, for a protected output whose base
\* group has a bucket after the protected level, adds no group: the groups of
\* the switch are the same, the backup port joins the ports of that bucket
\* after the ports it had, the bucket keeps its tag, and the key of the backup
\* is registered in FF_groups
C29_Coalesces ==
    \A i \in CallsOf("add_backup") :
        NextBucketTaken(calls[i]) /\ ~calls[i].needs_backup =>
            LET c == calls[i]
                base_id == BaseOf(c)[1]
                index == BaseOf(c)[2]
                old == c.before.buckets[base_id][index + 2]
                new == c.after.buckets[base_id][index + 2]
            IN /\ c.err = "none"
               /\ DOMAIN c.after.buckets = DOMAIN c.before.buckets
               /\ c.after.groups = c.before.groups
               /\ c.after.group_id_index = c.before.group_id_index
               /\ Len(c.after.buckets[base_id]) = Len(c.before.buckets[base_id])
               /\ new.ports = Append(old.ports, src_port(c.switch, c.backup_dst))
               /\ new.tag = old.tag
               /\ BackupKey(c) \in DOMAIN c.after.FF_groups
               /\ \A c1 \in Range(c.cmds) : c1[1] # "GROUP_ADD"

\* an add_backup that put a second port into the bucket of an earlier backup
C29_Witness ==
    \E i \in CallsOf("add_backup") :
        /\ NextBucketTaken(calls[i])
        /\ ~calls[i].needs_backup
        /\ calls[i].err = "none"
        /\ Len(calls[i].after.buckets[BaseOf(calls[i])[1]][BaseOf(calls[i])[2] + 2].ports) = 2

\* C30: add_backup with needs_backup true, for a protected output whose base
\* group has a bucket after the protected level, adds exactly one group: its
\* buckets are the buckets 0..index of the base group marked as drop and then
\* one live bucket with the backup port and the new tag; the base group is
\* unchanged; the new group is registered at index 0 under the key of its
\* first bucket and the key of the backup at index + 1 of the new group; and
\* the flow of the first bucket's key is installed again, with an output to
\* the base group and one to the new group
C30_Clones ==
    \A i \in CallsOf("add_backup") :
        NextBucketTaken(calls[i]) /\ calls[i].needs_backup =>
            LET c == calls[i]
                base_id == BaseOf(c)[1]
                index == BaseOf(c)[2]
                base_group == c.before.buckets[base_id]
                g_id == c.before.group_id_index
                f_g_key == <<base_group[1].ports[1], base_group[1].tag>>
                top == <<base_group[1].tag, 0>>
            IN /\ c.err = "none"
               /\ g_id \notin DOMAIN c.before.buckets
               /\ DOMAIN c.after.buckets = DOMAIN c.before.buckets \cup {g_id}
               /\ c.after.groups = c.before.groups \cup {g_id}
               /\ Cardinality({k \in DOMAIN c.cmds : c.cmds[k][1] = "GROUP_ADD"}) = 1
               /\ c.after.buckets[g_id] =
                     [k \in 1..(index + 1) |-> [base_group[k] EXCEPT !.drop = TRUE]]
                       \o <<Bucket(src_port(c.switch, c.backup_dst), c.tag, FALSE)>>
               /\ c.after.buckets[base_id] = base_group
               /\ f_g_key \in DOMAIN c.before.FF_groups
               /\ c.after.FF_groups[f_g_key] =
                     Append(c.before.FF_groups[f_g_key], <<g_id, 0>>)
               /\ c.after.FF_groups[BackupKey(c)] = << <<g_id, index + 1>> >>
               /\ \E k \in DOMAIN c.cmds :
                     c.cmds[k] \in {<<"ADD", c.switch, top[1], 0>>,
                                    <<"MODIFY_STRICT", c.switch, top[1], 0>>}
               /\ top \in DOMAIN c.after.tables
               /\ {<<"group", base_id>>, <<"group", g_id>>}
                     \subseteq Range(c.after.tables[top].acts)

(***************************************************************************)
(* remove_backup and remove_flow, as _leave calls them.                    *)
(***************************************************************************)
\* FF_groups[b_g_key][0] of the remove_backup call c: the group and the index
\* the backup is registered with
RemovedEntry(c) == c.before.FF_groups[BackupKey(c)][1]

\* base_group of the remove_backup call c
RemovedFrom(c) == c.before.buckets[RemovedEntry(c)[1]]

\* the remove_backup call c finds its backup registered, as the last bucket of
\* its group (line 699), and returns
RemovesLastBucket(c) ==
    /\ BackupKey(c) \in DOMAIN c.before.FF_groups
    /\ RemovedEntry(c)[1] \in DOMAIN c.before.buckets
    /\ Len(RemovedFrom(c)) = RemovedEntry(c)[2] + 1
    /\ c.err = "none"

\* the group g_id is gone from the switch of the call c, and the entry of key
\* in table 0, if there is one, does not output to it
GroupDeleted(c, g_id, key) ==
    /\ g_id \notin DOMAIN c.after.buckets
    /\ g_id \notin c.after.groups
    /\ <<"GROUP_DELETE", c.switch, g_id>> \in Range(c.cmds)
    /\ <<key, 0>> \in DOMAIN c.after.tables =>
          <<"group", g_id>> \notin Range(c.after.tables[<<key, 0>>].acts)

C32_RemovesPortOrTruncates ==
    \A i \in CallsOf("remove_backup") :
        LET c == calls[i]
            base_id == RemovedEntry(c)[1]
            index == RemovedEntry(c)[2]
            \* the places <<g_id, k>> of the port-list buckets that hold the
            \* backup: the bucket has the backup's tag and the backup's port
            \* among its ports
            SharedBuckets ==
                {p \in UNION {{<<g, k>> : k \in DOMAIN c.before.buckets[g]} :
                                g \in DOMAIN c.before.buckets} :
                    LET bucket == c.before.buckets[p[1]][p[2]]
                    IN /\ bucket.islist
                       /\ bucket.tag = c.tag
                       /\ BackupKey(c)[1] \in Range(bucket.ports)}
            \* the backup is registered in a bucket of its own that has
            \* buckets after it
            HasDeeperBuckets ==
                /\ base_id \in DOMAIN c.before.buckets
                /\ index >= 1
                /\ Len(RemovedFrom(c)) > index + 1
                /\ ~RemovedFrom(c)[index + 1].islist
        IN BackupKey(c) \in DOMAIN c.before.FF_groups =>
              /\ SharedBuckets # {} =>
                    /\ c.err = "none"
                    /\ BackupKey(c) \notin DOMAIN c.after.FF_groups
                    /\ \A p \in SharedBuckets :
                          /\ p[1] \in DOMAIN c.after.buckets
                          /\ p[2] <= Len(c.after.buckets[p[1]])
                          /\ Range(c.after.buckets[p[1]][p[2]].ports) =
                                Range(c.before.buckets[p[1]][p[2]].ports)
                                   \ {BackupKey(c)[1]}
              /\ HasDeeperBuckets =>
                    /\ c.err = "none"
                    /\ BackupKey(c) \notin DOMAIN c.after.FF_groups
                    /\ base_id \in DOMAIN c.after.buckets
                    /\ c.after.buckets[base_id] = SubSeq(RemovedFrom(c), 1, index)
                    /\ \A k \in (index + 2)..Len(RemovedFrom(c)) :
                          LET bucket == RemovedFrom(c)[k]
                          IN ~bucket.drop /\ ~bucket.islist =>
                                <<bucket.ports[1], bucket.tag>>
                                   \notin DOMAIN c.after.FF_groups

\* every group that an entry of the flow tables of the switch state S outputs
\* to is a group of the switch
GroupsExist(S) ==
    \A k \in DOMAIN S.tables :
        \A a \in Range(S.tables[k].acts) : a[1] = "group" => a[2] \in S.groups

LocalRoot == 2

\* the machine state after create_group with root LocalRoot
LocalCreated ==
    create_group([trees |-> <<>>, tag_index |-> 1,
                  sw |-> [s \in Switches |-> NoSwitchState], dead |-> {},
                  cmds |-> <<>>, err |-> "none", calls |-> <<>>], LocalRoot)

\* the group exists, with its source behind LocalRoot
LocalInit ==
    /\ F \in 1..MaxF
    /\ trees = LocalCreated.trees
    /\ tag_index = LocalCreated.tag_index
    /\ sw = LocalCreated.sw
    /\ dead = {}
    /\ cmds = <<>>
    /\ err = "none"
    /\ calls = <<>>
    /\ ops = 0
    /\ last = <<"create_group", LocalRoot>>
    /\ snap = NoSnap
    /\ joined = NoJoined

\* joins and leaves of the subscribers and the removal of the group, while
\* links fail and recover
LocalNext ==
    \/ \E h \in Hosts : AddSubscriber(h)
    \/ \E h \in Hosts : RemoveSubscriber(h)
    \/ RemoveGroup
    \/ \E e \in Failable : LinkDelete(e)
    \/ \E e \in Failable : LinkAdd(e)

LocalSpec == LocalInit /\ [][LocalNext]_vars

\* the tables in which the switch state S holds an entry for key
TablesOf(S, key) == {k[2] : k \in {x \in DOMAIN S.tables : x[1] = key}}

\* C34: for every switch and flow key, the tables in which the switch holds an
\* entry for the key are the tables 0..n-1, n the table count recorded in
\* flows, and none when the key is not recorded
C34_TablesMatchCount ==
    \A s \in Switches :
        \A key \in {k[1] : k \in DOMAIN sw[s].tables} \cup DOMAIN sw[s].flows :
            TablesOf(sw[s], key) = IF key \in DOMAIN sw[s].flows
                                   THEN 0..(sw[s].flows[key].n - 1)
                                   ELSE {}

\* C35: when remove_flow removes a protected switch-side output port, it
\* returns, every group of that port under the key, the clones included, is
\* gone from buckets and from the switch, the FF_groups entry of the port and
\* those of the backup buckets of the groups are unregistered, and the flow
\* stays installed with its other output ports
C35_RemovesGroupsOfPort ==
    \A i \in CallsOf("remove_flow") :
        LET c == calls[i]
            key == c.tag
            \* the port that the call removes
            port == src_port(c.switch, c.dst)
            \* the groups registered for the port
            GroupsOfPort == {g[1] : g \in Range(c.before.FF_groups[<<port, key>>])}
            \* the keys of the live backup buckets of the group
            BackupKeys(group) ==
                {<<group[k].ports[1], group[k].tag>> :
                    k \in {j \in 2..Len(group) : ~group[j].drop /\ ~group[j].islist}}
            others == [s |-> c.before.flows[key].s \ {port},
                       h |-> c.before.flows[key].h]
        IN (/\ key \in DOMAIN c.before.flows
            /\ port \in c.before.flows[key].s
            /\ <<port, key>> \in DOMAIN c.before.FF_groups) =>
              /\ c.err = "none"
              /\ GroupsOfPort \cap DOMAIN c.after.buckets = {}
              /\ GroupsOfPort \cap c.after.groups = {}
              /\ <<port, key>> \notin DOMAIN c.after.FF_groups
              /\ \A g \in GroupsOfPort \cap DOMAIN c.before.buckets :
                    BackupKeys(c.before.buckets[g]) \cap DOMAIN c.after.FF_groups = {}
              /\ others.s \cup others.h # {} =>
                    /\ key \in DOMAIN c.after.flows
                    /\ c.after.flows[key].s = others.s
                    /\ c.after.flows[key].h = others.h
                    /\ TablesOf(c.after, key) = 0..(c.after.flows[key].n - 1)

\* C36: after remove_subscriber(v) has completed, v is a node of no tree of
\* the hierarchy, and every leaf of every tree of the hierarchy, the root
\* apart, is a subscribed host, that is a host that is a node of the primary
\* tree
C36_NoDanglingBranch ==
    (last[1] = "remove_subscriber" /\ err = "none") =>
        \A t \in DOMAIN trees :
            LET T == trees[t]
            IN /\ last[2] \notin T.nodes
               /\ \A n \in T.nodes \ {T.root} :
                     out_degree(T, n) = 0 => n \in Hosts /\ n \in trees[Primary].nodes

\* remove_subscriber(v) has completed and took v and the switches that led to
\* v alone out of the primary tree and out of a backup tree, and the tree of
\* another subscriber and a backup tree of it are left
C36_Witness ==
    /\ last[1] = "remove_subscriber"
    /\ err = "none"
    /\ \E i \in CallsOf("remove_flow") : calls[i].tree = Primary
    /\ \E i \in CallsOf("remove_flow") : calls[i].tree # Primary
    /\ Primary \in DOMAIN trees
    /\ trees[Primary].nodes \cap Hosts # {}
    /\ \E t \in DOMAIN trees \ {Primary} :
          \E n \in trees[t].nodes \ {trees[t].root} : out_degree(trees[t], n) = 0
====
